---------------------------- MODULE Spec2Model ----------------------------
(***************************************************************************)
(* Rho bundle engine (Xi::Tunnel, include/Rho/Tunnel.hpp): packetization,  *)
(* padding, AEAD framing, nonce/window sequencing and fragmentation, at    *)
(* byte level.  Two endpoints are linked by a lossy, reordering,           *)
(* duplicating datagram substrate on which a forger can also inject bytes. *)
(***************************************************************************)
EXTENDS Integers, Sequences, FiniteSets, TLC

(***************************************************************************)
(* Bytes and strings.  A Xi::String is a sequence of bytes 0..255; offsets  *)
(* are 0-based as in the source.                                            *)
(***************************************************************************)
Byte == 0..255

Bit(a, i) == (a \div (2 ^ i)) % 2

RECURSIVE XorBits(_, _, _)
XorBits(a, b, i) ==
    IF i = 8 THEN 0
    ELSE ((Bit(a, i) + Bit(b, i)) % 2) * (2 ^ i) + XorBits(a, b, i + 1)

XorByte(a, b) == XorBits(a, b, 0)

zeros(n) == [i \in 1..n |-> 0]

Min(a, b) == IF a < b THEN a ELSE b

\* Array<T>::begin(from, to): the elements at offsets from .. to-1; to = 0
\* means "to the end"; empty when from >= end.
substring(s, from, to) ==
    LET end == IF to = 0 THEN Len(s) ELSE to
    IN IF from >= end THEN << >> ELSE SubSeq(s, from + 1, end)

\* String::pushVarLong: base-128, least significant group first,
\* continuation bit 0x80 on all but the last byte.
RECURSIVE pushVarLong(_)
pushVarLong(v) ==
    IF v \div 128 = 0 THEN << v % 128 >>
    ELSE << (v % 128) + 128 >> \o pushVarLong(v \div 128)

\* String::peekVarLong(offset): value, bytes consumed and the error flag.
\* The loop stops with an error when the buffer ends inside the number or
\* when 70 bits were accumulated.
VarLongError == [value |-> 0, bytes |-> 0, error |-> TRUE]

\* Values read off the wire are followed exactly below VarLongCap; any
\* larger value is kept as VarLongCap.
VarLongCap == 1073741824

RECURSIVE peekLoop(_, _, _, _, _)
peekLoop(s, offset, i, r, sh) ==
    IF i >= Len(s) THEN VarLongError
    ELSE LET b  == s[i + 1]
             lo == b % 128
             r2 == IF lo = 0 THEN r
                   ELSE IF sh >= 28 THEN VarLongCap
                   ELSE Min(r + lo * (2 ^ sh), VarLongCap)
         IN IF b < 128
            THEN [value |-> r2, bytes |-> (i - offset) + 1, error |-> FALSE]
            ELSE IF sh + 7 >= 70 THEN VarLongError
                 ELSE peekLoop(s, offset, i + 1, r2, sh + 7)

peekVarLong(s, offset) ==
    IF offset >= Len(s) THEN VarLongError
    ELSE peekLoop(s, offset, offset, 0, 0)

(***************************************************************************)
(* Crypto facade (include/Xi/Crypto.hpp).  ChaCha20 and Poly1305 are the    *)
(* monocypher library; they are modelled by a keystream and a keyed        *)
(* polynomial hash that depend on every input the real primitives depend   *)
(* on.  A key is 0 (the empty string) or a 32-byte key named 1, 2, ...      *)
(***************************************************************************)
KeySize(k) == IF k = 0 THEN 0 ELSE 32

\* crypto_chacha20_ietf keystream byte i (0-based) of block counter ctr.
KeyStream(k, nonce, ctr, i) ==
    ((k % 4093) * 89 + (nonce % 1048573) * 53 + ctr * 101 + i * 37 + 11) % 256

streamXor(k, nonce, text, counter) ==
    IF KeySize(k) # 32 THEN << >>
    ELSE [i \in 1..Len(text) |-> XorByte(text[i], KeyStream(k, nonce, counter, i - 1))]

\* The one-time Poly1305 key: the keystream of block 0.  It is kept as the
\* pair that determines it.
createPoly1305Key(k, nonce) ==
    ((k % 4093) * 4099 + (nonce % 1048573) * 131 + 17) % 1000003

\* Keyed hash of data[lo..hi]: every byte enters with a weight of its
\* position.
RECURSIVE polySum(_, _, _)
polySum(data, lo, hi) ==
    IF lo > hi THEN 0
    ELSE IF lo = hi THEN ((data[lo] + 1) * (((lo * 7919) % 4093) + 1)) % 4194301
    ELSE LET mid == (lo + hi) \div 2
         IN (polySum(data, lo, mid) + polySum(data, mid + 1, hi)) % 4194301

\* crypto_poly1305: a 16-byte tag over data under the one-time key.
crypto_poly1305(data, oneTimeKey) ==
    LET h == ((oneTimeKey % 1000003) * 2053 + Len(data) * 257 + polySum(data, 1, Len(data))) % 4194301
    IN [j \in 1..16 |-> (h \div (IF j <= 3 THEN 256 ^ (j - 1) ELSE 1) + j) % 256]

LE64(n) == [i \in 1..8 |-> IF i <= 3 THEN (n \div (256 ^ (i - 1))) % 256 ELSE 0]

\* The Poly1305 input of aeadSeal / aeadOpen.
dataToAuth(ad, ct) ==
    LET adPad     == (16 - (Len(ad) % 16)) % 16
        cipherPad == (16 - (Len(ct) % 16)) % 16
    IN ad \o zeros(adPad) \o ct \o zeros(cipherPad) \o LE64(Len(ad)) \o LE64(Len(ct))

\* A comparison that starts at the second byte.
constantTimeEqualsFromSecond(a, b, length) ==
    /\ Len(b) >= length
    /\ \A i \in 2..length :
          (IF i <= Len(a) THEN a[i] ELSE 0) = (IF i <= Len(b) THEN b[i] ELSE 0)

\* String::constantTimeEquals(b, length) with length > 0: the first
\* `length' bytes of both buffers are compared (a byte past the end of the
\* right-hand side counts as 0).
constantTimeEquals(a, b, length) ==
    /\ Len(b) >= length
    /\ \A i \in 1..length :
          (IF i <= Len(a) THEN a[i] ELSE 0) = (IF i <= Len(b) THEN b[i] ELSE 0)

\* aeadSeal: ok flag, ciphertext and truncated tag.
aeadSeal(k, nonce, text, ad, tagLength) ==
    IF KeySize(k) # 32 THEN [ok |-> FALSE, text |-> text, tag |-> << >>]
    ELSE LET ciphertext == streamXor(k, nonce, text, 1)
             tag == crypto_poly1305(dataToAuth(ad, ciphertext),
                                    createPoly1305Key(k, nonce))
         IN [ok |-> TRUE, text |-> ciphertext, tag |-> SubSeq(tag, 1, tagLength)]

\* An aeadOpen that decrypts without comparing the tag.
aeadOpenUnverified(k, nonce, text, ad, tag, tagLength) ==
    IF KeySize(k) # 32 THEN [ok |-> FALSE, text |-> text]
    ELSE [ok |-> TRUE, text |-> streamXor(k, nonce, text, 1)]

\* aeadOpen: verification first, plaintext only after it.
aeadOpen(k, nonce, text, ad, tag, tagLength) ==
    IF KeySize(k) # 32 THEN [ok |-> FALSE, text |-> text]
    ELSE LET calculatedTag == crypto_poly1305(dataToAuth(ad, text),
                                              createPoly1305Key(k, nonce))
         IN IF ~constantTimeEquals(tag, calculatedTag, tagLength)
            THEN [ok |-> FALSE, text |-> text]
            ELSE [ok |-> TRUE, text |-> streamXor(k, nonce, text, 1)]

(***************************************************************************)
(* Packets, inflight bundles and the session state of one Tunnel.           *)
(***************************************************************************)
\* struct Packet, as built by Packet(payload, channel).
Packet(p, c) ==
    [payload |-> p, channel |-> c, bypassHOL |-> FALSE, important |-> TRUE,
     id |-> 0, fragmentStartID |-> 0, fragmentStatus |-> 0]

InflightBundle(id, data, important) ==
    [id |-> id, data |-> data, important |-> important]

FromTo(from, to) == [from |-> from, to |-> to]

\* Tunnel::clear() values; the constructor runs clear() after the member
\* initialisers, so aliveTimeout starts at 8000.
AliveTimeoutDefault == 8000
DisconnectTimeoutDefault == 120000

\* The receive window is a u64; it is kept as the set of its set bit
\* positions, so a left shift drops every bit that leaves position 63.
MaskBits == 0..63

\* A freshly constructed Tunnel at clock value now.  heard is the record of
\* listener invocations, built the ids of the bundles build() made, in
\* order, and loose the ids of those it filed as non-important; crashed and
\* hung record that a call performed an out-of-bounds
\* read that faulted, or never returned.
NewTunnel(now) ==
    [key |-> 0, isSecure |-> FALSE, isWindowed |-> FALSE, isAsleep |-> FALSE,
     lastSent |-> now, lastSentHeartbeat |-> now, lastSeen |-> now,
     destroyAfterFlush |-> FALSE, windowAfterFlush |-> FALSE,
     secureAfterFlush |-> FALSE, secureXAfterFlush |-> FALSE,
     aliveTimeout |-> AliveTimeoutDefault,
     disconnectTimeout |-> DisconnectTimeoutDefault,
     lastSentNonce |-> 0, lastReceivedNonce |-> 0, receiveWindowMask |-> {},
     inflightBundles |-> << >>, nonImportantInflightBundles |-> << >>,
     priorityResendQueue |-> << >>, resendPosition |-> 0,
     droppedBundles |-> << >>, reassemblyBuffer |-> << >>, outbox |-> << >>,
     ephemeralSecret |-> 0, theirEphemeralPublic |-> << >>,
     intendedEpheHash |-> << >>,
     heard |-> << >>, built |-> << >>, loose |-> << >>, crashed |-> FALSE,
     hung |-> FALSE]

\* Tunnel::enableSecurity
enableSecurity(s, k) ==
    [s EXCEPT !.key = k, !.isSecure = TRUE, !.lastSentNonce = 0,
              !.lastReceivedNonce = 0, !.receiveWindowMask = {},
              !.outbox = << >>]

\* Tunnel::enableWindowing
enableWindowing(s) ==
    [s EXCEPT !.isWindowed = TRUE, !.lastSentNonce = 0,
              !.lastReceivedNonce = 0, !.receiveWindowMask = {},
              !.outbox = << >>]

\* Xi::sharedKey followed by Xi::kdf(shared, "RhoPufferV1", 32): a 32-byte
\* key determined by the two ephemerals.
derivedKey(secret, theirPublic) == 100 + secret

\* Tunnel::enableSecurityX
enableSecurityX(s) ==
    IF Len(s.theirEphemeralPublic) # 32 \/ s.ephemeralSecret = 0 THEN s
    ELSE enableSecurity(s, derivedKey(s.ephemeralSecret, s.theirEphemeralPublic))

\* A serializePacket that never writes the channel.
serializePacketNoChannel(s, p) ==
    << (p.fragmentStatus % 4) + (IF p.bypassHOL THEN 8 ELSE 0) >>
    \o (IF s.isWindowed THEN pushVarLong(p.id) ELSE << >>)
    \o (IF p.fragmentStatus # 0 THEN pushVarLong(p.fragmentStartID) ELSE << >>)
    \o p.payload

\* Tunnel::serializePacket
serializePacket(s, p) ==
    LET h == (p.fragmentStatus % 4)
             + (IF p.channel # 1 THEN 4 ELSE 0)
             + (IF p.bypassHOL THEN 8 ELSE 0)
    IN << h >>
       \o (IF s.isWindowed THEN pushVarLong(p.id) ELSE << >>)
       \o (IF p.channel # 1 THEN pushVarLong(p.channel) ELSE << >>)
       \o (IF p.fragmentStatus # 0 THEN pushVarLong(p.fragmentStartID) ELSE << >>)
       \o p.payload

\* A hasReceived whose window is one nonce short.
hasReceivedShortWindow(s, id) ==
    IF id = 0 THEN TRUE
    ELSE IF id > s.lastReceivedNonce THEN FALSE
    ELSE LET diff == s.lastReceivedNonce - id
         IN IF diff >= 63 THEN TRUE ELSE diff \in s.receiveWindowMask

\* A hasReceived that looks at lastReceivedNonce only, never at the mask.
hasReceivedIgnoringMask(s, id) ==
    IF id = 0 THEN TRUE
    ELSE IF id > s.lastReceivedNonce THEN FALSE
    ELSE s.lastReceivedNonce - id >= 64

\* Tunnel::hasReceived
hasReceived(s, id) ==
    IF id = 0 THEN TRUE
    ELSE IF id > s.lastReceivedNonce THEN FALSE
    ELSE LET diff == s.lastReceivedNonce - id
         IN IF diff >= 64 THEN TRUE ELSE diff \in s.receiveWindowMask

\* A pretendReceived that marks nothing for a nonce below the newest.
pretendReceivedNewestOnly(s, id) ==
    IF id = 0 THEN s
    ELSE IF id > s.lastReceivedNonce
    THEN LET diff == id - s.lastReceivedNonce
         IN [s EXCEPT !.receiveWindowMask =
                         IF diff >= 64 THEN {0}
                         ELSE {k + diff : k \in {b \in @ : b + diff \in MaskBits}}
                              \cup {0},
                      !.lastReceivedNonce = id]
    ELSE s

\* Tunnel::pretendReceived
pretendReceived(s, id) ==
    IF id = 0 THEN s
    ELSE IF id > s.lastReceivedNonce
    THEN LET diff == id - s.lastReceivedNonce
         IN [s EXCEPT !.receiveWindowMask =
                         IF diff >= 64 THEN {0}
                         ELSE {k + diff : k \in {b \in @ : b + diff \in MaskBits}}
                              \cup {0},
                      !.lastReceivedNonce = id]
    ELSE LET diff == s.lastReceivedNonce - id
         IN IF diff < 64
            THEN [s EXCEPT !.receiveWindowMask = @ \cup {diff}]
            ELSE s

\* Array<T>::remove(idx) on a list kept as a sequence (idx is 0-based).
RemoveAt(list, idx) ==
    [j \in 1..(Len(list) - 1) |-> IF j <= idx THEN list[j] ELSE list[j + 1]]

\* A removeInflight that leaves the resend cursor where it is.
removeInflightCursorKept(s, id) ==
    LET hits == {i \in 1..Len(s.inflightBundles) : s.inflightBundles[i].id = id}
    IN IF hits = {} THEN s
       ELSE LET i == (CHOOSE x \in hits : \A y \in hits : x <= y) - 1
            IN [s EXCEPT !.inflightBundles = RemoveAt(@, i)]

\* Tunnel::removeInflight: the first inflight bundle with that id is
\* removed and the resend cursor follows it.
removeInflight(s, id) ==
    LET hits == {i \in 1..Len(s.inflightBundles) : s.inflightBundles[i].id = id}
    IN IF hits = {} THEN s
       ELSE LET i == (CHOOSE x \in hits : \A y \in hits : x <= y) - 1
            IN [s EXCEPT !.inflightBundles = RemoveAt(@, i),
                         !.resendPosition = IF @ > i THEN @ - 1 ELSE @]

\* A resendFrom that takes the id for the position.
resendFromById(s, x) == [s EXCEPT !.resendPosition = x]

\* Tunnel::resendFrom
resendFrom(s, x) ==
    LET hits == {i \in 1..Len(s.inflightBundles) : s.inflightBundles[i].id >= x}
    IN [s EXCEPT !.resendPosition =
           IF hits = {} THEN 0
           ELSE (CHOOSE a \in hits : \A b \in hits : a <= b) - 1]

\* Tunnel::showReceived: the received ranges, scanning the mask from bit 0
\* (the newest nonce) towards older nonces.
RECURSIVE showReceivedLoop(_, _, _, _, _)
showReceivedLoop(s, k, cur, inRange, res) ==
    IF k >= 64 \/ s.lastReceivedNonce - k = 0
    THEN IF inRange THEN Append(res, cur) ELSE res
    ELSE LET id   == s.lastReceivedNonce - k
             have == k \in s.receiveWindowMask
         IN IF have
            THEN IF inRange
                 THEN showReceivedLoop(s, k + 1, [cur EXCEPT !.from = id], TRUE, res)
                 ELSE showReceivedLoop(s, k + 1, FromTo(id, id), TRUE, res)
            ELSE IF inRange
                 THEN showReceivedLoop(s, k + 1, cur, FALSE, Append(res, cur))
                 ELSE showReceivedLoop(s, k + 1, cur, FALSE, res)

showReceived(s) ==
    IF s.lastReceivedNonce = 0 THEN << >>
    ELSE showReceivedLoop(s, 1, FromTo(s.lastReceivedNonce, s.lastReceivedNonce),
                          TRUE, << >>)

\* Tunnel::showUnavailable: the ranges it returns (the caller's state loses
\* its droppedBundles).
showUnavailable(s) ==
    [i \in 1..Len(s.droppedBundles) |-> FromTo(s.droppedBundles[i], s.droppedBundles[i])]

(***************************************************************************)
(* Inbound path: dispatchPacket, parsePacket, parse.                        *)
(***************************************************************************)
\* A listener invocation, recorded in call order.
Hear(s, kind, p) == [s EXCEPT !.heard = Append(@, [kind |-> kind, pkt |-> p])]

\* for (x = from; x <= to; ++x) removeInflight(x): only an x that is the id
\* of an inflight bundle has an effect, so the loop is followed over those.
RECURSIVE removeRange(_, _, _)
removeRange(s, x, to) ==
    LET ids == {s.inflightBundles[i].id : i \in 1..Len(s.inflightBundles)}
        todo == {y \in ids : y >= x /\ y <= to}
        y == CHOOSE a \in todo : \A b \in todo : a <= b
    IN IF todo = {} THEN s ELSE removeRange(removeInflight(s, y), y + 1, to)

\* dispatchPacket, type 0, first list: acked ranges.  Yields the state and
\* the read position the loop stops at.
RECURSIVE ackLoop(_, _, _, _, _)
ackLoop(s, payload, pAt, i, count) ==
    IF i >= count THEN [s |-> s, pAt |-> pAt]
    ELSE LET fRes == peekVarLong(payload, pAt)
         IN IF fRes.error THEN [s |-> s, pAt |-> pAt]
            ELSE LET tRes == peekVarLong(payload, pAt + fRes.bytes)
                 IN IF tRes.error THEN [s |-> s, pAt |-> pAt + fRes.bytes]
                    ELSE ackLoop(removeRange(s, fRes.value, tRes.value), payload,
                                 pAt + fRes.bytes + tRes.bytes, i + 1, count)

\* dispatchPacket, type 0, second list: every inflight bundle whose id lies
\* in an unavailable range is cloned into the priority-resend queue.
RECURSIVE nackLoop(_, _, _, _, _)
nackLoop(s, payload, pAt, i, count) ==
    IF i >= count THEN s
    ELSE LET fRes == peekVarLong(payload, pAt)
         IN IF fRes.error THEN s
            ELSE LET tRes == peekVarLong(payload, pAt + fRes.bytes)
                     InRange(ib) == ib.id >= fRes.value /\ ib.id <= tRes.value
                     Clone(ib) == InflightBundle(ib.id, ib.data, TRUE)
                     hit == SelectSeq(s.inflightBundles, InRange)
                 IN IF tRes.error THEN s
                    ELSE nackLoop([s EXCEPT !.priorityResendQueue =
                                      @ \o [j \in 1..Len(hit) |-> Clone(hit[j])]],
                                  payload, pAt + fRes.bytes + tRes.bytes, i + 1, count)

\* Tunnel::dispatchPacket
dispatchPacket(s, p) ==
    IF p.channel = 0
    THEN LET typeRes == peekVarLong(p.payload, 0)
             type    == typeRes.value
             pAt     == typeRes.bytes
             rest    == substring(p.payload, pAt, Len(p.payload))
         IN IF typeRes.error THEN s
            ELSE IF type = 0
            THEN IF ~s.isWindowed THEN s
                 ELSE LET countRes == peekVarLong(p.payload, pAt)
                      IN IF countRes.error THEN s
                         ELSE LET a == ackLoop(s, p.payload, pAt + countRes.bytes,
                                               0, countRes.value)
                                  countRes2 == peekVarLong(p.payload, a.pAt)
                              IN IF countRes2.error THEN a.s
                                 ELSE nackLoop(a.s, p.payload,
                                               a.pAt + countRes2.bytes, 0,
                                               countRes2.value)
            ELSE IF type = 10 THEN Hear(s, "probe", rest)
            ELSE IF type = 11 THEN Hear(s, "announce", rest)
            ELSE IF type = 1000 THEN Hear(s, "disconnect", rest)
            ELSE IF type = 20
            THEN LET at1 == pAt + 8
                     hasHash == at1 + 8 <= Len(p.payload)
                     at2 == IF hasHash THEN at1 + 8 ELSE at1
                     hasPub == at2 + 32 <= Len(p.payload)
                 IN Hear([s EXCEPT
                            !.intendedEpheHash =
                                IF hasHash THEN substring(p.payload, at1, at1 + 8) ELSE @,
                            !.theirEphemeralPublic =
                                IF hasPub THEN substring(p.payload, at2, at2 + 32) ELSE @],
                         "switchRequest", << >>)
            ELSE s
    ELSE Hear(s, "packet", p)

\* Tunnel::parsePacket.  raw[0] of an empty string is an out-of-bounds read:
\* ub is the outcome, -1 for a fault and otherwise the byte that was read.
parsePacket(s, raw, ub) ==
    IF Len(raw) = 0 /\ ub = -1 THEN [s EXCEPT !.crashed = TRUE]
    ELSE
    LET header     == IF Len(raw) = 0 THEN ub ELSE raw[1]
        fragStatus == header % 4
        hasChannel == (header \div 4) % 2 = 1
        bypass     == (header \div 8) % 2 = 1
        idRes      == IF s.isWindowed THEN peekVarLong(raw, 1) ELSE VarLongError
        c1         == 1 + idRes.bytes
        chRes      == IF hasChannel THEN peekVarLong(raw, c1) ELSE VarLongError
        c2         == c1 + chRes.bytes
        fsRes      == IF fragStatus # 0 THEN peekVarLong(raw, c2) ELSE VarLongError
        c3         == c2 + fsRes.bytes
        p == [payload |-> IF c3 < Len(raw) THEN substring(raw, c3, Len(raw)) ELSE << >>,
              channel |-> IF hasChannel /\ ~chRes.error THEN chRes.value ELSE 1,
              bypassHOL |-> bypass,
              important |-> TRUE,
              id |-> idRes.value,
              fragmentStartID |-> fsRes.value,
              fragmentStatus |-> fragStatus]
    IN dispatchPacket(s, p)

\* The packet loop of a multi-packet bundle.  bad tells that the loop was
\* left through one of its breaks.
RECURSIVE parseLoop(_, _, _, _)
parseLoop(s, content, sAt, ub) ==
    IF sAt >= Len(content) \/ s.crashed THEN [s |-> s, bad |-> FALSE]
    ELSE LET res == peekVarLong(content, sAt)
             at  == sAt + res.bytes
         IN IF res.error THEN [s |-> s, bad |-> TRUE]
            ELSE IF at + res.value > Len(content) THEN [s |-> s, bad |-> TRUE]
            ELSE parseLoop(parsePacket(s, substring(content, at, at + res.value), ub),
                           content, at + res.value, ub)

\* Tunnel::parse.  exit names the return the call left through.
parse(s, bundle, now, ub) ==
    LET s0     == [s EXCEPT !.lastSeen = now, !.isAsleep = FALSE]
        nRes   == IF s.isWindowed THEN peekVarLong(bundle, 0) ELSE VarLongError
        bID    == IF s.isWindowed THEN nRes.value ELSE s.lastReceivedNonce + 1
        at     == IF s.isWindowed THEN nRes.bytes ELSE 0
        payload == substring(bundle, at, Len(bundle))
        aad    == IF s.isWindowed THEN pushVarLong(bID) ELSE << >>
        opened == aeadOpen(s.key, bID, substring(payload, 8, Len(payload)), aad,
                           substring(payload, 0, 8), 8)
        plain  == IF s.isSecure THEN opened.text ELSE payload
        s1     == IF s.isWindowed THEN pretendReceived(s0, bID)
                  ELSE [s0 EXCEPT !.lastReceivedNonce = bID]
        hb     == plain[1]
        padded == (hb \div 4) % 2 = 1
        single == (hb \div 8) % 2 = 1
        pRes   == peekVarLong(plain, 1)
        pAt    == 1 + pRes.bytes
        content == IF padded THEN substring(plain, pAt, pAt + pRes.value)
                   ELSE substring(plain, 1, Len(plain))
        looped == parseLoop(s1, content, 0, ub)
    IN IF s.isWindowed /\ nRes.error THEN [s |-> s0, exit |-> "nonce"]
       ELSE IF s.isWindowed /\ hasReceived(s0, bID) THEN [s |-> s0, exit |-> "replay"]
       ELSE IF s.isSecure /\ Len(payload) < 9 THEN [s |-> s0, exit |-> "short"]
       ELSE IF s.isSecure /\ ~opened.ok THEN [s |-> s0, exit |-> "aead"]
       ELSE IF Len(plain) = 0 THEN [s |-> s0, exit |-> "empty"]
       ELSE IF padded /\ pRes.error THEN [s |-> s1, exit |-> "padlen"]
       ELSE IF padded /\ pAt + pRes.value > Len(plain) THEN [s |-> s1, exit |-> "padrange"]
       ELSE IF single THEN [s |-> parsePacket(s1, content, ub), exit |-> "done"]
       ELSE [s |-> looped.s, exit |-> IF looped.bad THEN "pktlen" ELSE "done"]

(***************************************************************************)
(* Outbound path: build and flush.                                          *)
(***************************************************************************)
Reverse(q) == [i \in 1..Len(q) |-> q[Len(q) + 1 - i]]

\* The fragments build() cuts packet p into, in payload order.
fragmentsOf(p, fS) ==
    LET L == Len(p.payload)
        n == (L + fS - 1) \div fS
    IN [k \in 1..n |->
          LET off == (k - 1) * fS
              len == Min(fS, L - off)
          IN [Packet(substring(p.payload, off, off + len), p.channel) EXCEPT
                 !.id = p.id,
                 !.important = p.important,
                 !.fragmentStartID = p.id,
                 !.fragmentStatus =
                     IF off = 0 THEN (IF L <= off + len THEN 0 ELSE 1)
                                ELSE (IF L <= off + len THEN 3 ELSE 2)]]

\* Outbox after the fragmentation branch: the head packet is shifted out and
\* each fragment, first to last, is unshifted to the head.
fragmentHead(outbox, fS) ==
    Reverse(fragmentsOf(Head(outbox), fS)) \o Tail(outbox)

\* The multi-packet packing loop: packets are appended, each with its length
\* prefix, until the next one plus a 9-byte margin exceeds avail.
RECURSIVE packLoop(_, _, _, _)
packLoop(s, i, acc, avail) ==
    IF i > Len(s.outbox) THEN acc
    ELSE LET t == serializePacket(s, s.outbox[i])
         IN IF Len(acc.py) + Len(t) + 9 > avail THEN acc
            ELSE packLoop(s, i + 1,
                          [py |-> acc.py \o pushVarLong(Len(t)) \o t,
                           important |-> acc.important \/ s.outbox[i].important,
                           consumed |-> acc.consumed + 1],
                          avail)

\* Available payload per bundle.
availOf(s, bBS, bMS) ==
    LET overhead == 1 + (IF s.isWindowed THEN 9 ELSE 0) + 8 + bBS
    IN IF bMS > overhead THEN bMS - overhead ELSE 0

\* The packets of one bundle: the head packet alone without length prefix
\* (single), or what the packing loop takes.
packOutbox(s, avail) ==
    IF Len(s.outbox) = 1 \/ ~s.isWindowed
    THEN [py |-> << 0 >> \o serializePacket(s, s.outbox[1]),
          important |-> s.outbox[1].important, consumed |-> 1]
    ELSE packLoop(s, 1, [py |-> << 0 >>, important |-> FALSE, consumed |-> 0], avail)

\* The content fP of a bundle: header byte h (padded bit added here), the
\* VarLong lV of the data length and zero padding when 1 + |lV| + dL is not a
\* multiple of bBS.
paddedContent(py, lV, h, bBS) ==
    IF (Len(py) + Len(lV)) % bBS # 0
    THEN << h + 4 >> \o lV \o substring(py, 1, Len(py))
         \o zeros(bBS - ((Len(py) + Len(lV)) % bBS))
    ELSE << h >> \o substring(py, 1, Len(py))

\* The bytes bD of the bundle cBID with content fP; sealed is aeadSeal's
\* result for fP.
bundleBytes(s, cBID, fP, sealed) ==
    (IF s.isWindowed THEN pushVarLong(cBID) ELSE << >>)
    \o (IF s.isSecure
        THEN (IF sealed.ok THEN sealed.tag \o sealed.text ELSE << >>)
        ELSE fP)

\* aeadSeal(key, cBID, opt) as build() calls it.
sealContent(s, cBID, fP) ==
    aeadSeal(s.key, cBID, fP, IF s.isWindowed THEN pushVarLong(cBID) ELSE << >>, 8)

\* An end of iteration that files every bundle in the list the resend
\* cursor walks.
enqueueBundleAllInflight(s, consumed, ib) ==
    [s EXCEPT
       !.outbox = substring(@, consumed, Len(@)),
       !.lastSentNonce = IF s.isWindowed THEN @ + 1 ELSE @,
       !.built = Append(@, ib.id),
       !.loose = IF ib.important THEN @ ELSE Append(@, ib.id),
       !.inflightBundles = Append(@, ib)]

\* The end of an iteration: the consumed packets leave the outbox, the bundle
\* ib joins its inflight list.
enqueueBundle(s, consumed, ib) ==
    [s EXCEPT
       !.outbox = substring(@, consumed, Len(@)),
       !.lastSentNonce = IF s.isWindowed THEN @ + 1 ELSE @,
       !.built = Append(@, ib.id),
       !.loose = IF ib.important THEN @ ELSE Append(@, ib.id),
       !.inflightBundles = IF ib.important THEN Append(@, ib) ELSE @,
       !.nonImportantInflightBundles = IF ib.important THEN @ ELSE Append(@, ib)]

\* Header byte, bundle id, sealing and inflight entry for the packed py.
emitPacked(s, packed, cBID, fP) ==
    enqueueBundle(s, packed.consumed,
                  InflightBundle(cBID, bundleBytes(s, cBID, fP, sealContent(s, cBID, fP)),
                                 IF s.isWindowed THEN packed.important ELSE FALSE))

emitContent(s, packed, h, bBS) ==
    emitPacked(s, packed, IF s.isWindowed THEN s.lastSentNonce + 1 ELSE 0,
               paddedContent(packed.py, pushVarLong(Len(packed.py) - 1), h, bBS))

\* One bundle: packing, padding, header byte, nonce, sealing, inflight entry.
emitBundle(s, bBS, bMS) ==
    emitContent(s, packOutbox(s, availOf(s, bBS, bMS)),
                (IF s.isSecure THEN 1 ELSE 0)
                + (IF Len(s.outbox) = 1 \/ ~s.isWindowed THEN 8 ELSE 0),
                bBS)

\* The packets one bundle would take from the outbox.
consumedOf(s, bBS, bMS) ==
    IF Len(s.outbox) = 1 \/ ~s.isWindowed THEN 1
    ELSE packLoop(s, 1, [py |-> << 0 >>, important |-> FALSE, consumed |-> 0],
                  availOf(s, bBS, bMS)).consumed

\* The while loop of build().  Two outbox contents make an iteration leave
\* the outbox as it found it, so that the loop never ends: a head packet
\* that exceeds avail although its payload is a single fragment, and a head
\* packet that fits avail but not the packing margin while other packets
\* wait behind it.  The call then never returns (hung).
RECURSIVE buildLoop(_, _, _)
buildLoop(s, bBS, bMS) ==
    IF Len(s.outbox) = 0 THEN s
    ELSE LET avail == availOf(s, bBS, bMS)
             fS    == IF avail > 15 THEN avail - 15 ELSE 1
             L     == Len(s.outbox[1].payload)
         IN IF s.isWindowed /\ Len(serializePacket(s, s.outbox[1])) > avail
            THEN IF L > 0 /\ L <= fS
                 THEN [s EXCEPT !.hung = TRUE]
                 ELSE buildLoop([s EXCEPT !.outbox = fragmentHead(@, fS)], bBS, bMS)
            ELSE IF consumedOf(s, bBS, bMS) = 0
                 THEN [s EXCEPT !.hung = TRUE]
                 ELSE buildLoop(emitBundle(s, bBS, bMS), bBS, bMS)

\* Tunnel::build
build(s, bBS, bMS) ==
    IF s.isAsleep THEN s ELSE buildLoop(s, bBS, bMS)

\* varlong-encoded list of ranges.
RECURSIVE pushRanges(_)
pushRanges(rs) ==
    IF rs = << >> THEN << >>
    ELSE pushVarLong(Head(rs).from) \o pushVarLong(Head(rs).to) \o pushRanges(Tail(rs))

\* The heartbeat packet flush() puts at the head of the outbox.
heartbeatPacket(s) ==
    LET rec == showReceived(s)
        un  == showUnavailable(s)
    IN [Packet(pushVarLong(0) \o pushVarLong(Len(rec)) \o pushRanges(rec)
               \o pushVarLong(Len(un)) \o pushRanges(un), 0)
         EXCEPT !.important = FALSE]

\* flush(): the heartbeat is put at the head of the outbox when it is due.
withHeartbeat(s, now) ==
    IF /\ s.aliveTimeout > 0
       /\ s.isWindowed
       /\ \/ now > s.lastSent + s.aliveTimeout
          \/ now > s.lastSentHeartbeat + ((s.aliveTimeout * 2) \div 5)
    THEN [s EXCEPT !.outbox = << heartbeatPacket(s) >> \o @,
                   !.droppedBundles = << >>,
                   !.lastSentHeartbeat = now]
    ELSE s

\* A flush that serves the resend cursor before the priority resend queue.
pickBundleCursorFirst(s) ==
    IF Len(s.nonImportantInflightBundles) > 0
    THEN [s |-> [s EXCEPT !.nonImportantInflightBundles = Tail(@)],
          ret |-> Head(s.nonImportantInflightBundles).data]
    ELSE IF s.resendPosition < Len(s.inflightBundles)
    THEN [s |-> [s EXCEPT !.resendPosition = @ + 1],
          ret |-> s.inflightBundles[s.resendPosition + 1].data]
    ELSE IF Len(s.priorityResendQueue) > 0
    THEN [s |-> [s EXCEPT !.priorityResendQueue = Tail(@)],
          ret |-> Head(s.priorityResendQueue).data]
    ELSE [s |-> s, ret |-> << >>]

\* flush(): the bundle to return: non-important first, then the priority
\* resend queue, then the important bundle at resendPosition.
pickBundle(s) ==
    IF Len(s.nonImportantInflightBundles) > 0
    THEN [s |-> [s EXCEPT !.nonImportantInflightBundles = Tail(@)],
          ret |-> Head(s.nonImportantInflightBundles).data]
    ELSE IF Len(s.priorityResendQueue) > 0
    THEN [s |-> [s EXCEPT !.priorityResendQueue = Tail(@)],
          ret |-> Head(s.priorityResendQueue).data]
    ELSE IF s.resendPosition < Len(s.inflightBundles)
    THEN [s |-> [s EXCEPT !.resendPosition = @ + 1],
          ret |-> s.inflightBundles[s.resendPosition + 1].data]
    ELSE [s |-> s, ret |-> << >>]

\* flush(): bookkeeping after a bundle was picked.
noteSent(s, ret, now) ==
    IF Len(ret) > 0
    THEN [s EXCEPT !.lastSent = now,
                   !.inflightBundles = IF s.isWindowed THEN @ ELSE << >>,
                   !.resendPosition = IF s.isWindowed THEN @ ELSE 0]
    ELSE s

noteAsleep(s, now) ==
    IF s.aliveTimeout > 0 /\ now - s.lastSeen > s.aliveTimeout
    THEN [s EXCEPT !.isAsleep = TRUE] ELSE s

\* flush(): the deferred transitions, applied at the flush boundary.
applySecureAfterFlush(s) ==
    IF s.secureAfterFlush
    THEN [s EXCEPT !.isSecure = TRUE, !.secureAfterFlush = FALSE] ELSE s

applyWindowAfterFlush(s) ==
    IF s.windowAfterFlush
    THEN [s EXCEPT !.isWindowed = TRUE, !.windowAfterFlush = FALSE] ELSE s

applySecureXAfterFlush(s) ==
    IF s.secureXAfterFlush
    THEN [enableSecurityX(s) EXCEPT !.secureXAfterFlush = FALSE] ELSE s

flushPicked(pick, now) ==
    [s |-> applySecureXAfterFlush(applyWindowAfterFlush(applySecureAfterFlush(
              noteAsleep(noteSent(pick.s, pick.ret, now), now)))),
     ret |-> pick.ret]

\* flush() after build(): s2 is the state build() left.
flushBuilt(s, s2, now) ==
    IF s2.hung THEN [s |-> [s EXCEPT !.hung = TRUE], ret |-> << >>]
    ELSE flushPicked(pickBundle(s2), now)

buildIfAny(s, bBS, bMS) ==
    IF Len(s.outbox) > 0 THEN build(s, bBS, bMS) ELSE s

\* A flush that does not look at isAsleep.
flushThroughSleep(s, bBS, bMS, now) ==
    IF /\ s.destroyAfterFlush
       /\ Len(s.inflightBundles) = 0
       /\ Len(s.nonImportantInflightBundles) = 0
       /\ Len(s.outbox) = 0
    THEN [s |-> Hear(s, "destroy", << >>), ret |-> << >>]
    ELSE flushBuilt(s, buildIfAny(withHeartbeat(s, now), bBS, bMS), now)

\* Tunnel::flush: the state after the call and the bytes it returns.
flush(s, bBS, bMS, now) ==
    IF s.isAsleep THEN [s |-> s, ret |-> << >>]
    ELSE IF /\ s.destroyAfterFlush
            /\ Len(s.inflightBundles) = 0
            /\ Len(s.nonImportantInflightBundles) = 0
            /\ Len(s.outbox) = 0
    THEN [s |-> Hear(s, "destroy", << >>), ret |-> << >>]
    ELSE flushBuilt(s, buildIfAny(withHeartbeat(s, now), bBS, bMS), now)

(***************************************************************************)
(* The system: endpoint A pushes and flushes, endpoint B parses.  Every     *)
(* bundle A's flush returns is put on the wire, from where it may reach B   *)
(* any number of times and in any order, or never; a forger may hand B      *)
(* bytes of its own.                                                        *)
(***************************************************************************)
VARIABLES
    tun,        \* the Tunnel object of each endpoint
    wire,       \* the bundles flush() returned at A, in emission order
    now,        \* Xi::millis()
    sent,       \* the packets the application pushed at A, in push order
    accepted,   \* B: the nonces of the bundles that passed replay check and AEAD since the last reset
    delivered,  \* B: the bundles whose parse invoked the packet listener since the last reset
    inOrder,    \* B was handed the wire bundles in emission order, each at most once, and nothing else
    nextIdx,    \* the wire position after the last bundle handed to B
    lastFlush,  \* the last flush() at A: outbox before it, bytes returned
    lastOp,     \* the last operation and its input
    calls,      \* operation counts, bounding the run
    node,       \* the Node object of each endpoint (with its Puffer)
    air,        \* the bundles both endpoints emitted, in emission order, with their sender
    log,        \* what each parse call met and did, in call order
    rail,       \* the Railway object of each endpoint
    reach       \* the Reach object and the position of its run()

vars == << tun, wire, now, sent, accepted, delivered, inOrder, nextIdx,
           lastFlush, lastOp, calls, node, air, log, rail, reach >>

\* The variables of the Node layer, idle while the Tunnel pair runs.
nodeVars == << node, air, log, rail, reach >>

Tunnels == {"A", "B"}

\* Bounds of the run.
MaxPush == 2
MaxFlush == 3
MaxParse == 3
MaxInject == 1

\* The session key both applications hold, and a key only the forger holds.
SessionKey == 1
ForgerKey == 2

\* flush(bBS, bMS) arguments: block size 4 and a 46-byte bundle limit give
\* 24 bytes of available payload in windowed mode and fragments of 9 bytes.
Sizes == { << 4, 46 >> }

PayloadA == << 65 >>
PayloadB == << 70, 71, 72, 73, 74, 75, 76, 77 >>
PayloadC == [i \in 1..23 |-> 100 + i]

\* The packets the application pushes: id is the application's message id.
PushSet ==
    { [Packet(PayloadA, 2) EXCEPT !.id = 1, !.bypassHOL = TRUE],
      [Packet(PayloadB, 1) EXCEPT !.id = 2],
      [Packet(PayloadB, 1) EXCEPT !.id = 3, !.important = FALSE],
      [Packet(PayloadC, 1) EXCEPT !.id = 4] }

\* The state an endpoint is in once the application has set it up.
Configure(s, sec, win) ==
    LET s1 == IF win THEN enableWindowing(s) ELSE s
    IN IF sec THEN enableSecurity(s1, SessionKey) ELSE s1

\* lastOp: the operation, its endpoint and input, the exit parse took, the
\* endpoint before the call, whether the input had been delivered before,
\* the bundle id parse worked with and whether that id had been accepted.
NoOp == [op |-> "init", t |-> "A", arg |-> << >>, exit |-> "none",
         pre |-> NewTunnel(0), old |-> FALSE, bID |-> 0, seen |-> FALSE]

Init ==
    /\ \E sec \in BOOLEAN, win \in BOOLEAN :
          tun = [t \in Tunnels |-> Configure(NewTunnel(0), sec, win)]
    /\ wire = << >>
    /\ now = 0
    /\ sent = << >>
    /\ accepted = {}
    /\ delivered = {}
    /\ inOrder = TRUE
    /\ nextIdx = 1
    /\ lastFlush = [outbox |-> << >>, ret |-> << >>, pre |-> NewTunnel(0)]
    /\ lastOp = NoOp
    /\ rail = << >>
    /\ reach = << >>
    /\ calls = [push |-> 0, flush |-> 0, parse |-> 0, inject |-> 0]
    /\ node = << >>
    /\ air = << >>
    /\ log = << >>

Alive(t) == ~tun[t].crashed /\ ~tun[t].hung

\* Tunnel::push at A
Push(p) ==
    /\ Alive("A")
    /\ calls.push < MaxPush
    /\ tun' = [tun EXCEPT !["A"].outbox = Append(@, p)]
    /\ sent' = Append(sent, p)
    /\ calls' = [calls EXCEPT !.push = @ + 1]
    /\ lastOp' = [NoOp EXCEPT !.op = "push", !.arg = p, !.pre = tun["A"]]
    /\ UNCHANGED << wire, now, accepted, delivered, inOrder, nextIdx, lastFlush >>
    /\ UNCHANGED nodeVars

\* Tunnel::flush at A; the returned bytes go on the wire.
Flush(size) ==
    /\ Alive("A")
    /\ calls.flush < MaxFlush
    /\ LET f == flush(tun["A"], size[1], size[2], now)
       IN /\ tun' = [tun EXCEPT !["A"] = f.s]
          /\ wire' = IF Len(f.ret) > 0 THEN Append(wire, f.ret) ELSE wire
          /\ lastFlush' = [outbox |-> tun["A"].outbox, ret |-> f.ret, pre |-> tun["A"]]
          /\ lastOp' = [NoOp EXCEPT !.op = "flush", !.arg = f.ret, !.pre = tun["A"],
                                    !.exit = IF f.s.hung THEN "hung" ELSE "none"]
    /\ calls' = [calls EXCEPT !.flush = @ + 1]
    /\ UNCHANGED << now, sent, accepted, delivered, inOrder, nextIdx >>
    /\ UNCHANGED nodeVars

\* The packet-listener invocations in a heard record.
PacketsOf(h) == SelectSeq(h, LAMBDA e : e.kind = "packet")

\* Tunnel::parse at B of the bytes b.
Receive(b, ub) ==
    /\ Alive("B")
    /\ calls.parse < MaxParse
    /\ LET r == parse(tun["B"], b, now, ub)
          passed == r.exit \notin {"nonce", "replay", "short", "aead", "empty"}
          bID == IF tun["B"].isWindowed THEN peekVarLong(b, 0).value
                 ELSE tun["B"].lastReceivedNonce + 1
       IN /\ tun' = [tun EXCEPT !["B"] = r.s]
          /\ accepted' = IF passed THEN accepted \cup {bID} ELSE accepted
          /\ delivered' = IF Len(PacketsOf(r.s.heard)) > Len(PacketsOf(tun["B"].heard))
                          THEN delivered \cup {b} ELSE delivered
          /\ lastOp' = [op |-> "parse", t |-> "B", arg |-> b, exit |-> r.exit,
                        pre |-> tun["B"], old |-> b \in delivered, bID |-> bID,
                        seen |-> bID \in accepted]
    /\ UNCHANGED << wire, now, sent, lastFlush >>
    /\ UNCHANGED nodeVars

\* The substrate hands B the i-th emitted bundle.
Deliver(i) ==
    /\ i \in 1..Len(wire)
    /\ Receive(wire[i], 0)
    /\ calls' = [calls EXCEPT !.parse = @ + 1]
    /\ inOrder' = (inOrder /\ i >= nextIdx)
    /\ nextIdx' = i + 1

\* Bytes of the forger's making: bundles off the wire with a byte changed or
\* cut off, and bundles it assembled itself (without the session key).
flipByte(b) == [b EXCEPT ![2] = (@ + 1) % 256]
dropLast(b) == SubSeq(b, 1, Len(b) - 1)

Crafted ==
    { \* nonce VarLong that never ends within ten bytes
      [i \in 1..11 |-> 128],
      \* nonce 9, padded single-packet bundle whose length field overruns
      << 9, 12, 50, 0, 65 >>,
      \* nonce 9, padded bundle whose length field ends the bundle
      << 9, 4, 128 >>,
      \* nonce 8, multi-packet bundle: one good packet, then a bogus length
      << 8, 0, 3, 0, 1, 66, 99, 0 >>,
      \* nonce 7, single-packet bundle with no packet bytes
      << 7, 8 >>,
      \* nonce 6, a well-formed single-packet bundle
      << 6, 8, 0, 6, 67 >>,
      \* nonce 65, a well-formed single-packet bundle
      << 65, 8, 0, 6, 68 >> }

\* A bundle sealed like the sender's first one, under the forger's key.
Forged ==
    LET f == enableSecurity(enableWindowing(NewTunnel(0)), ForgerKey)
    IN { flush([f EXCEPT !.outbox = << Packet(PayloadA, 1) >>], 4, 46, 0).ret }

Tampered == UNION { {flipByte(wire[i]), dropLast(wire[i])} :
                    i \in {j \in 1..Len(wire) : Len(wire[j]) >= 2} }

\* Outcomes of the out-of-bounds read in parsePacket: a fault, or a byte.
UBOutcomes == {-1, 0}

Inject(b, ub) ==
    /\ calls.inject < MaxInject
    /\ ub = 0 \/ parse(tun["B"], b, now, ub).s.crashed
    /\ Receive(b, ub)
    /\ calls' = [calls EXCEPT !.parse = @ + 1, !.inject = @ + 1]
    /\ inOrder' = FALSE
    /\ UNCHANGED nextIdx

\* The two endpoints over a link that loses, repeats and reorders bundles.
Next ==
    \/ \E p \in PushSet : Push(p)
    \/ \E size \in Sizes : Flush(size)
    \/ \E i \in 1..Len(wire) : Deliver(i)

Spec == Init /\ [][Next]_vars

\* The same with a forger on the link; the application pushes less.
ForgerPushSet == {p \in PushSet : p.id = 2}

NextForger ==
    \/ \E p \in ForgerPushSet : Push(p)
    \/ \E size \in Sizes : Flush(size)
    \/ \E i \in 1..Len(wire) : Deliver(i)
    \/ \E b \in Crafted \cup Forged \cup Tampered, ub \in UBOutcomes : Inject(b, ub)

SpecForger == Init /\ [][NextForger]_vars


(***************************************************************************)
(* Properties of the receive path.                                         *)
(***************************************************************************)
ParsedLast == lastOp.op = "parse"

\* The listener invocations of the last parse.
HeardByLast == SubSeq(tun["B"].heard, Len(lastOp.pre.heard) + 1, Len(tun["B"].heard))

\* The last parse left the replay window as it was.
WindowUntouched ==
    /\ tun["B"].lastReceivedNonce = lastOp.pre.lastReceivedNonce
    /\ tun["B"].receiveWindowMask = lastOp.pre.receiveWindowMask

\* The bundle b carries a tag that the session key and the nonce bID yield
\* for its ciphertext and associated data: sealing the decrypted text again
\* gives the same ciphertext and tag.
TagVerifies(pre, b, bID) ==
    LET at      == IF pre.isWindowed THEN peekVarLong(b, 0).bytes ELSE 0
        payload == substring(b, at, Len(b))
        tag     == substring(payload, 0, 8)
        ct      == substring(payload, 8, Len(payload))
        aad     == IF pre.isWindowed THEN pushVarLong(bID) ELSE << >>
        again   == aeadSeal(SessionKey, bID, streamXor(SessionKey, bID, ct, 1), aad, 8)
    IN /\ pre.isWindowed => ~peekVarLong(b, 0).error
       /\ Len(payload) >= 9
       /\ again.ok /\ again.tag = tag /\ again.text = ct

\* The nonce of b is readable and not marked received in pre.
NonceIsNew(pre, b, bID) ==
    /\ pre.isWindowed => ~peekVarLong(b, 0).error
    /\ bID # 0
    /\ bID > pre.lastReceivedNonce
         \/ /\ pre.lastReceivedNonce - bID < 64
            /\ (pre.lastReceivedNonce - bID) \notin pre.receiveWindowMask

\* C1: on a secure session, a parse of bytes whose earlier parse invoked the
\* packet listener invokes no listener at all.
C1_ReplayDispatchesNothing ==
    (ParsedLast /\ lastOp.pre.isSecure /\ lastOp.old) => HeardByLast = << >>

C1_Witness ==
    /\ ParsedLast /\ lastOp.pre.isSecure /\ lastOp.old
    /\ lastOp.exit = "replay"
    /\ lastOp.arg \in {wire[i] : i \in 1..Len(wire)}

\* C2: on a secure session, a parse advances the window and dispatches the
\* bundle's packets to the end if and only if the nonce is new under the
\* mask and the tag verifies under the session key and that nonce.
C2_AcceptedIffNewAndAuthentic ==
    (ParsedLast /\ lastOp.pre.isSecure) =>
        ( ( /\ lastOp.exit = "done"
            /\ lastOp.bID \in accepted
            /\ hasReceived(tun["B"], lastOp.bID)
            /\ HeardByLast # << >> )
          <=>
          ( /\ NonceIsNew(lastOp.pre, lastOp.arg, lastOp.bID)
            /\ TagVerifies(lastOp.pre, lastOp.arg, lastOp.bID) ) )

C2_Witness ==
    /\ ParsedLast /\ lastOp.pre.isSecure
    /\ lastOp.exit = "done" /\ HeardByLast # << >>
    /\ \E n \in accepted : n # lastOp.bID

C2_WitnessRejected ==
    /\ ParsedLast /\ lastOp.pre.isSecure
    /\ lastOp.exit = "aead"
    /\ NonceIsNew(lastOp.pre, lastOp.arg, lastOp.bID)

\* C3: on a secure session, a parse of a bundle whose tag does not verify
\* invokes no listener and leaves lastReceivedNonce and the mask unchanged,
\* so the nonce it named is as acceptable afterwards as it was before.
C3_BadTagLeavesWindow ==
    (ParsedLast /\ lastOp.pre.isSecure
       /\ ~TagVerifies(lastOp.pre, lastOp.arg, lastOp.bID)) =>
        /\ WindowUntouched
        /\ HeardByLast = << >>
        /\ hasReceived(tun["B"], lastOp.bID) = hasReceived(lastOp.pre, lastOp.bID)

C3_Witness ==
    /\ ParsedLast /\ lastOp.pre.isSecure /\ lastOp.pre.isWindowed
    /\ ~TagVerifies(lastOp.pre, lastOp.arg, lastOp.bID)
    /\ lastOp.arg \in Tampered \cup Forged
    /\ NonceIsNew(lastOp.pre, lastOp.arg, lastOp.bID)
    /\ lastOp.pre.lastReceivedNonce > 0


\* The exits parse takes on a malformed bundle: a nonce or padding VarLong
\* that does not end, a padding length or a packet length that runs past
\* the end of the bundle.
MalformedExits == {"nonce", "padlen", "padrange", "pktlen"}

\* C4: a parse that meets a malformed bundle leaves lastReceivedNonce, the
\* receive mask, the inflight lists and the reassembly buffer as they were
\* and invokes no listener.
C4_MalformedChangesNothing ==
    (ParsedLast /\ lastOp.exit \in MalformedExits) =>
        /\ WindowUntouched
        /\ tun["B"].inflightBundles = lastOp.pre.inflightBundles
        /\ tun["B"].nonImportantInflightBundles = lastOp.pre.nonImportantInflightBundles
        /\ tun["B"].priorityResendQueue = lastOp.pre.priorityResendQueue
        /\ tun["B"].reassemblyBuffer = lastOp.pre.reassemblyBuffer
        /\ HeardByLast = << >>


Largest(S) == CHOOSE n \in S : \A m \in S : m <= n

\* C5: in windowed mode lastReceivedNonce is the largest nonce accepted on
\* the session (0 before the first), and bit k of the mask is set exactly
\* when nonce lastReceivedNonce - k was accepted, for k in 0..63.
C5_WindowMatchesAccepted ==
    tun["B"].isWindowed =>
        /\ tun["B"].lastReceivedNonce = Largest(accepted \cup {0})
        /\ \A k \in MaskBits :
              (k \in tun["B"].receiveWindowMask)
                  <=> ((tun["B"].lastReceivedNonce - k) \in accepted)

C5_Witness ==
    /\ ParsedLast /\ lastOp.pre.isWindowed
    /\ lastOp.bID < lastOp.pre.lastReceivedNonce
    /\ ~lastOp.seen /\ lastOp.bID \in accepted
    /\ Cardinality(accepted) >= 2
    /\ (tun["B"].lastReceivedNonce - lastOp.bID) \in tun["B"].receiveWindowMask

\* A jump of 64 or more empties the window.
C5_WitnessJump ==
    /\ ParsedLast /\ lastOp.pre.isWindowed
    /\ lastOp.pre.lastReceivedNonce > 0
    /\ lastOp.bID >= lastOp.pre.lastReceivedNonce + 64
    /\ tun["B"].receiveWindowMask = {0}

\* A bundle the sender emitted.
Genuine(b) == \E i \in 1..Len(wire) : wire[i] = b

\* C6: in windowed mode a parse of a bundle the sender emitted whose nonce
\* was not accepted before and is at most 63 below the highest accepted
\* nonce (or above it) dispatches its packets, whatever arrived before; a
\* parse of one whose nonce is 64 or more below the highest accepted nonce
\* is dropped at the replay check and changes nothing.
C6_ReorderWithinWindow ==
    (ParsedLast /\ lastOp.pre.isWindowed /\ Genuine(lastOp.arg)) =>
        /\ (~lastOp.seen /\ lastOp.bID + 63 >= lastOp.pre.lastReceivedNonce)
              => (lastOp.exit = "done" /\ HeardByLast # << >>)
        /\ (lastOp.bID + 64 <= lastOp.pre.lastReceivedNonce)
              => (lastOp.exit = "replay" /\ HeardByLast = << >> /\ WindowUntouched)

\* A bundle exactly 63 below the newest nonce is delivered.
C6_Witness ==
    /\ ParsedLast /\ lastOp.pre.isWindowed /\ Genuine(lastOp.arg)
    /\ ~lastOp.seen
    /\ lastOp.bID + 63 = lastOp.pre.lastReceivedNonce
    /\ HeardByLast # << >>

\* A bundle exactly 64 below the newest nonce is dropped.
C6_WitnessTooOld ==
    /\ ParsedLast /\ lastOp.pre.isWindowed /\ Genuine(lastOp.arg)
    /\ ~lastOp.seen
    /\ lastOp.bID + 64 = lastOp.pre.lastReceivedNonce
    /\ lastOp.exit = "replay"


(***************************************************************************)
(* Properties of the send path and of the round trip.                      *)
(***************************************************************************)
\* C7: every bundle the sender built has a non-zero id, and the ids are
\* strictly increasing in build order, windowed or not.
C7_BundleIdsNonZeroIncreasing ==
    LET built == tun["A"].built
    IN /\ \A i \in 1..Len(built) : built[i] # 0
       /\ \A i \in 1..Len(built), j \in 1..Len(built) : i < j => built[i] < built[j]


\* What the application sees of a packet: bytes, channel and, on a windowed
\* session, the message id.
Seen(q, withId) ==
    [i \in 1..Len(q) |-> [payload |-> q[i].payload, channel |-> q[i].channel,
                          id |-> IF withId THEN q[i].id ELSE 0]]

SeenByB(withId) == Seen([i \in 1..Len(PacketsOf(tun["B"].heard)) |->
                            PacketsOf(tun["B"].heard)[i].pkt], withId)

RECURSIVE SerializedSum(_, _)
SerializedSum(s, q) ==
    IF q = << >> THEN 0
    ELSE Len(serializePacket(s, Head(q))) + SerializedSum(s, Tail(q))

\* One flush of the pushes P1..Pn of a fresh sender, all on one channel, and
\* one parse of the bundle at a fresh receiver.
OneFlushOneParse ==
    /\ ParsedLast
    /\ calls.flush = 1 /\ calls.parse = 1
    /\ Len(wire) = 1 /\ lastOp.arg = wire[1]
    /\ Len(lastFlush.outbox) >= 1
    /\ \A i \in 1..Len(lastFlush.outbox) :
          lastFlush.outbox[i].channel = lastFlush.outbox[1].channel

\* C8 as stated: when the serialized sizes of P1..Pn add up to at most the
\* available payload, one flush and one parse deliver exactly P1..Pn in
\* push order.
C8_SingleFlushDeliversAll ==
    (OneFlushOneParse
       /\ SerializedSum(lastFlush.pre, lastFlush.outbox)
              <= availOf(lastFlush.pre, 4, 46)) =>
        SeenByB(lastFlush.pre.isWindowed) = Seen(lastFlush.outbox, lastFlush.pre.isWindowed)

\* The size the packing loop compares with the available payload when it
\* takes the last of the packets q: the header byte, every earlier packet
\* with its length prefix, the last packet and a margin of 9 bytes.
RECURSIVE PrefixedSum(_, _)
PrefixedSum(s, q) ==
    IF q = << >> THEN 0
    ELSE Len(pushVarLong(Len(serializePacket(s, Head(q)))))
         + Len(serializePacket(s, Head(q))) + PrefixedSum(s, Tail(q))

FitsOneBundle(s, q, avail) ==
    IF Len(q) = 1 THEN Len(serializePacket(s, q[1])) <= avail
    ELSE 1 + PrefixedSum(s, SubSeq(q, 1, Len(q) - 1))
           + Len(serializePacket(s, q[Len(q)])) + 9 <= avail

\* What holds of the packing: on a windowed session, when a single packet
\* fits the available payload, or the header byte, the length-prefixed
\* earlier packets, the last packet and a 9-byte margin do, one flush and
\* one parse deliver exactly P1..Pn in push order, bytes, channel and id
\* unchanged.
PackedFlushDeliversAll ==
    (OneFlushOneParse /\ lastFlush.pre.isWindowed
       /\ FitsOneBundle(lastFlush.pre, lastFlush.outbox, availOf(lastFlush.pre, 4, 46))) =>
        SeenByB(TRUE) = Seen(lastFlush.outbox, TRUE)

PackedFlushWitness ==
    /\ OneFlushOneParse /\ lastFlush.pre.isWindowed
    /\ Len(lastFlush.outbox) >= 2
    /\ FitsOneBundle(lastFlush.pre, lastFlush.outbox, availOf(lastFlush.pre, 4, 46))
    /\ Len(PacketsOf(tun["B"].heard)) = Len(lastFlush.outbox)


\* What tells two application packets apart at the receiver: the message id
\* on a windowed session (fragments of one packet share it), the bytes
\* otherwise.
KeyOf(p) == IF tun["B"].isWindowed THEN << p.id >> ELSE p.payload

PushedBefore(a, b) ==
    \E i \in 1..Len(sent), j \in 1..Len(sent) :
        i < j /\ KeyOf(sent[i]) = a /\ KeyOf(sent[j]) = b

\* C9: over a link that hands the emitted bundles to the receiver in
\* emission order, losing some, packets of one channel reach the packet
\* listener in push order; the fragments of one packet count as one.
C9_DeliveredInPushOrder ==
    inOrder =>
        LET h == PacketsOf(tun["B"].heard)
        IN \A i \in 1..Len(h), j \in 1..Len(h) :
              (i < j /\ h[i].pkt.channel = h[j].pkt.channel
                 /\ KeyOf(h[i].pkt) # KeyOf(h[j].pkt))
                  => PushedBefore(KeyOf(h[i].pkt), KeyOf(h[j].pkt))

\* The bundles emitted for packet P alone, parsed in emission order.
AllParsedInOrder ==
    /\ inOrder
    /\ Len(sent) = 1
    /\ tun["A"].outbox = << >>
    /\ Len(wire) = Len(tun["A"].built)
    /\ Len(wire) >= 1
    /\ nextIdx = Len(wire) + 1
    /\ calls.parse = Len(wire)

\* C10: when packet P exceeds the available payload, after every bundle
\* emitted for P was parsed in emission order the packet listener has been
\* invoked exactly once, with P's bytes, channel and id.
C10_FragmentsReassembled ==
    (AllParsedInOrder /\ tun["A"].isWindowed
       /\ Len(serializePacket(tun["A"], sent[1])) > availOf(tun["A"], 4, 46)) =>
        SeenByB(TRUE) = Seen(sent, TRUE)


\* A packet-listener invocation made for a fragment that is not the last
\* one of its packet (fragment status START = 1 or MIDDLE = 2).
SurfacedEarly(h) ==
    {i \in 1..Len(h) : h[i].pkt.fragmentStatus \in {1, 2}}

\* C11: START and MIDDLE fragments never cause a packet-listener dispatch;
\* only the END fragment of a fragment-start-id surfaces a payload, the
\* concatenation of the fragments.
C11_OnlyEndSurfaces ==
    SurfacedEarly(PacketsOf(tun["B"].heard)) = {}

\* A call that evaluates its argument once, before the body runs, as the
\* calls of the source do: F applied to the value of a.
ByValue(F(_), a) == CHOOSE r \in { F(x) : x \in {a} } : TRUE

(***************************************************************************)
(* The bundle engine Xi::Puffer (include/Rho/Puffer.hpp), the revision     *)
(* Xi::Node is built on: glare resolution, the secure bit on the wire,     *)
(* fragment reassembly.                                                    *)
(***************************************************************************)
\* Encoding::readVarLong: the value and the advanced cursor; 0 and the
\* cursor where it was when peekVarLong reports an error.
readVarLong(s, at) ==
    LET res == peekVarLong(s, at)
    IN IF res.error THEN [value |-> 0, at |-> at]
       ELSE [value |-> res.value, at |-> at + res.bytes]

\* A freshly constructed Puffer at clock value clock.  reassemblyBuffer is
\* the map kept as a set of pairs of fragment-start-id and bytes; inbox
\* holds the packets handed to the packet listener; heard and hung are as
\* for the Tunnel.
NewPuffer(clock) ==
    [key |-> 0, isSecure |-> FALSE, isWindowed |-> FALSE,
     lastSent |-> clock, lastSentHeartbeat |-> clock, lastSeen |-> clock,
     heartbeatEnabled |-> FALSE, hbMaxSilence |-> 5000, hbInterval |-> 12000,
     timeoutEnabled |-> FALSE, timeoutDuration |-> 8000,
     glarePosition |-> FALSE, glareInited |-> FALSE,
     lastSentNonce |-> 0, lastReceivedNonce |-> 0, receiveWindowMask |-> {},
     resendPosition |-> 0, inflightBundles |-> << >>,
     nonImportantInflightBundles |-> << >>, droppedBundles |-> << >>,
     reassemblyBuffer |-> {}, outbox |-> << >>,
     theirEphemeralPublic |-> << >>, intendedEpheHash |-> << >>,
     inbox |-> << >>, heard |-> << >>, hung |-> FALSE]

\* Puffer::enableSecurity: only a 32-byte key is taken; the nonces, the
\* window and the outbox stay as they are.
Puffer_enableSecurity(s, k) ==
    IF KeySize(k) = 32 THEN [s EXCEPT !.key = k, !.isSecure = TRUE] ELSE s

\* Puffer::enableWindowing
Puffer_enableWindowing(s) == [s EXCEPT !.isWindowed = TRUE]

\* Puffer::serializePacket: the id is written in every mode.
Puffer_serializePacket(p) ==
    << p.fragmentStatus + (IF p.channel # 1 THEN 4 ELSE 0)
                        + (IF p.bypassHOL THEN 8 ELSE 0) >>
    \o pushVarLong(p.id)
    \o (IF p.channel # 1 THEN pushVarLong(p.channel) ELSE << >>)
    \o (IF p.fragmentStatus # 0 THEN pushVarLong(p.fragmentStartID) ELSE << >>)
    \o p.payload

\* The packet listener: the packet joins the inbox the owner drains.
Puffer_inbox(s, p) == [Hear(s, "packet", p) EXCEPT !.inbox = Append(@, p)]

\* for (id = from; id <= to; ++id) pretendReceived(id): ids at or below
\* lastReceivedNonce - 64 have no effect, and the highest id decides the
\* final position of the window, so the loop is followed from there.
RECURSIVE pretendRange(_, _, _)
pretendRange(s, from, to) ==
    IF from > to THEN s
    ELSE IF to - from >= 64
    THEN pretendRange(s, to - 63, to)
    ELSE pretendRange(pretendReceived(s, from), from + 1, to)

\* Puffer::dispatchPacket, type 0: the acked ranges leave inflight, the
\* second list is marked received, the resend cursor returns to the head.
\* Once a read fails the cursor stays and every later range reads as 0..0,
\* which changes nothing, so the loops are left there.
RECURSIVE Puffer_ackLoop(_, _, _, _, _)
Puffer_ackLoop(s, payload, pAt, i, count) ==
    IF i >= count THEN [s |-> s, pAt |-> pAt]
    ELSE LET f == readVarLong(payload, pAt)
             t == readVarLong(payload, f.at)
         IN Puffer_ackLoop(removeRange(s, f.value, t.value), payload, t.at,
                           i + 1, IF f.at = pAt THEN Min(count, i + 1) ELSE count)

RECURSIVE Puffer_markLoop(_, _, _, _, _)
Puffer_markLoop(s, payload, pAt, i, count) ==
    IF i >= count THEN s
    ELSE LET f == readVarLong(payload, pAt)
             t == readVarLong(payload, f.at)
         IN Puffer_markLoop(pretendRange(s, f.value, t.value), payload, t.at,
                            i + 1, IF f.at = pAt THEN Min(count, i + 1) ELSE count)

Puffer_heartbeat(s, payload, pAt) ==
    LET count == readVarLong(payload, pAt)
        a     == Puffer_ackLoop(s, payload, count.at, 0, count.value)
        cnt2  == readVarLong(payload, a.pAt)
    IN resendFrom(Puffer_markLoop(a.s, payload, cnt2.at, 0, cnt2.value), 0)

\* Puffer::dispatchPacket: control packets of channel 0 are acted on, and
\* every packet, control or not, reaches the packet listener.
Puffer_control(s, p, ty) ==
    IF ty.value = 0 THEN Puffer_heartbeat(s, p.payload, ty.at)
    ELSE IF ty.value = 10
    THEN Hear(s, "probe", substring(p.payload, ty.at, Len(p.payload)))
    ELSE IF ty.value = 11
    THEN Hear(s, "announce", substring(p.payload, ty.at, Len(p.payload)))
    ELSE IF ty.value = 20
    THEN IF Len(p.payload) >= ty.at + 8 + 8 + 32
         THEN Hear([s EXCEPT
                      !.intendedEpheHash =
                          substring(p.payload, ty.at + 8, ty.at + 16),
                      !.theirEphemeralPublic =
                          substring(p.payload, ty.at + 16, ty.at + 48)],
                   "switchRequest", << >>)
         ELSE s
    ELSE IF ty.value = 100
    THEN Hear(s, "disconnect", substring(p.payload, ty.at, Len(p.payload)))
    ELSE s

Puffer_dispatchPacket(s, p) ==
    Puffer_inbox(IF p.channel = 0
                 THEN Puffer_control(s, p, readVarLong(p.payload, 0))
                 ELSE s,
                 p)

\* Xi::Map<u64, String> kept as a set of <<key, value>> pairs.
MapPut(m, k, v) == {e \in m : e[1] # k} \cup {<< k, v >>}
MapRemove(m, k) == {e \in m : e[1] # k}
MapHas(m, k) == \E e \in m : e[1] = k
MapGet(m, k) == (CHOOSE e \in m : e[1] = k)[2]

\* Puffer::parsePacket, after the fields were read: a whole packet is
\* dispatched; START seeds the buffer of its fragment-start-id; MIDDLE and
\* END are appended to it when it exists; END dispatches the buffer as a
\* whole packet and drops it.
Puffer_route(s, p) ==
    IF p.fragmentStatus = 1
    THEN [s EXCEPT !.reassemblyBuffer = MapPut(@, p.fragmentStartID, p.payload)]
    ELSE IF p.fragmentStatus # 0 /\ ~MapHas(s.reassemblyBuffer, p.fragmentStartID)
    THEN s
    ELSE IF p.fragmentStatus = 2
    THEN [s EXCEPT !.reassemblyBuffer =
             MapPut(@, p.fragmentStartID,
                    MapGet(s.reassemblyBuffer, p.fragmentStartID) \o p.payload)]
    ELSE Puffer_dispatchPacket(
             IF p.fragmentStatus = 0 THEN s
             ELSE [s EXCEPT !.reassemblyBuffer = MapRemove(@, p.fragmentStartID)],
             IF p.fragmentStatus = 0 THEN p
             ELSE [p EXCEPT !.payload =
                               MapGet(s.reassemblyBuffer, p.fragmentStartID) \o @,
                            !.fragmentStatus = 0])

\* Puffer::parsePacket
Puffer_parsePacket(s, raw) ==
    IF Len(raw) = 0 THEN s
    ELSE
    LET header     == raw[1]
        fragStatus == header % 4
        hasChannel == (header \div 4) % 2 = 1
        idR == readVarLong(raw, 1)
        chR == IF hasChannel THEN readVarLong(raw, idR.at)
               ELSE [value |-> 1, at |-> idR.at]
        fsR == IF fragStatus # 0 THEN readVarLong(raw, chR.at)
               ELSE [value |-> 0, at |-> chR.at]
    IN Puffer_route(s,
          [payload |-> IF fsR.at < Len(raw) THEN substring(raw, fsR.at, Len(raw))
                       ELSE << >>,
           channel |-> chR.value,
           bypassHOL |-> (header \div 8) % 2 = 1,
           important |-> TRUE,
           id |-> idR.value,
           fragmentStartID |-> fsR.value,
           fragmentStatus |-> fragStatus])

\* The packet loop of a multi-packet bundle.  A length that cannot be read
\* reads as 0 with the cursor where it was, so the loop never ends (hung).
RECURSIVE Puffer_parseLoop(_, _, _)
Puffer_parseLoop(s, plain, pAt) ==
    IF pAt >= Len(plain) THEN s
    ELSE LET res == peekVarLong(plain, pAt)
             at  == pAt + res.bytes
         IN IF res.error THEN [s EXCEPT !.hung = TRUE]
            ELSE IF at + res.value > Len(plain) THEN s
            ELSE Puffer_parseLoop(
                     Puffer_parsePacket(s, substring(plain, at, at + res.value)),
                     plain, at + res.value)

\* Puffer::parse, from the padding on: plain is the content with its
\* padding cut off, pAt the offset of the first packet.
Puffer_parsePackets(s, bundleID, plain, pAt, single) ==
    ByValue(LAMBDA s1 : IF s1.hung THEN s1
                        ELSE IF s.isWindowed THEN pretendReceived(s1, bundleID)
                        ELSE [s1 EXCEPT !.lastReceivedNonce = bundleID],
            IF single
            THEN (IF pAt < Len(plain)
                  THEN Puffer_parsePacket(s, substring(plain, pAt, Len(plain)))
                  ELSE s)
            ELSE Puffer_parseLoop(s, plain, pAt))

\* Puffer::parse, the glare check: a bundle that carries the local glare
\* position is dropped once the position is locked; the first bundle seen
\* before that locks the opposite position.
Puffer_glare(s, bundleGlarePos) ==
    IF s.glareInited
    THEN [drop |-> bundleGlarePos = s.glarePosition, s |-> s]
    ELSE [drop |-> FALSE,
          s |-> [s EXCEPT !.glarePosition = ~bundleGlarePos, !.glareInited = TRUE]]

\* Puffer::parse, from the plaintext on: header bits, glare, padding.
Puffer_parsePlain(s, bundleID, plain) ==
    LET headerByte == plain[1]
        g      == Puffer_glare(s, (headerByte \div 16) % 2 = 1)
        padR   == IF (headerByte \div 4) % 2 = 1 THEN readVarLong(plain, 1)
                  ELSE [value |-> 0, at |-> 1]
        cut    == IF Len(plain) > padR.value
                  THEN substring(plain, 0, Len(plain) - padR.value)
                  ELSE plain
    IN IF Len(plain) = 0 THEN [s |-> s, exit |-> "empty"]
       ELSE IF g.drop THEN [s |-> s, exit |-> "glare"]
       ELSE [s |-> Puffer_parsePackets(g.s, bundleID, cut, padR.at,
                                       (headerByte \div 8) % 2 = 1),
             exit |-> "done"]

\* options.text[0] &= 0xFE
clearSecureBit(text) ==
    [i \in 1..Len(text) |-> IF i = 1 THEN text[i] - (text[i] % 2) ELSE text[i]]

\* options.text[0] = (options.text[0] & 0xFE) | 1
setSecureBit(text) ==
    [i \in 1..Len(text) |-> IF i = 1 THEN text[i] - (text[i] % 2) + 1 ELSE text[i]]

\* Puffer::parse, the secure branch: the last 8 bytes are the tag, the rest
\* is the ciphertext with bit 0 of its first byte cleared.
Puffer_open(s, bundleID, payload) ==
    aeadOpen(s.key, bundleID,
             clearSecureBit(substring(payload, 0, Len(payload) - 8)),
             pushVarLong(bundleID),
             substring(payload, Len(payload) - 8, Len(payload)), 8)

\* The plaintext the rest of Puffer::parse works on: the payload itself
\* without security, what aeadOpen gives with it; exit names the early
\* return of the secure branch.
Puffer_parseSecure(s, bundleID, payload) ==
    IF ~s.isSecure THEN [ok |-> TRUE, text |-> payload, exit |-> "done"]
    ELSE IF Len(payload) < 9 THEN [ok |-> FALSE, text |-> << >>, exit |-> "short"]
    ELSE ByValue(LAMBDA opened : [ok |-> opened.ok, text |-> opened.text,
                                  exit |-> IF opened.ok THEN "done" ELSE "aead"],
                 Puffer_open(s, bundleID, payload))

\* Puffer::parse: the state after the call; exit names the return the call
\* left through.
Puffer_parse(s, bundle, clock) ==
    LET s0  == [s EXCEPT !.lastSeen = clock]
        nR  == IF s.isWindowed THEN readVarLong(bundle, 0)
               ELSE [value |-> s.lastReceivedNonce + 1, at |-> 0]
    IN IF s.isWindowed /\ hasReceived(s0, nR.value)
       THEN [s |-> s0, exit |-> "replay"]
       ELSE IF nR.at >= Len(bundle) THEN [s |-> s0, exit |-> "empty"]
       ELSE IF s.isSecure # (bundle[nR.at + 1] % 2 = 1)
       THEN [s |-> s0, exit |-> "securebit"]
       ELSE ByValue(LAMBDA opened :
                        IF opened.ok
                        THEN Puffer_parsePlain(s0, nR.value, opened.text)
                        ELSE [s |-> s0, exit |-> opened.exit],
                    Puffer_parseSecure(s0, nR.value,
                                       substring(bundle, nR.at, Len(bundle))))

\* Puffer::build, available payload per bundle.
Puffer_available(bBS, bMS) ==
    IF bMS > 1 + 9 + 8 + bBS THEN bMS - (1 + 9 + 8 + bBS) ELSE 0

\* Puffer::build, the multi-packet packing loop: each packet is appended
\* with its length prefix until the next one plus a 5-byte margin exceeds
\* the available payload.
RECURSIVE Puffer_packLoop(_, _, _, _)
Puffer_packLoop(outbox, i, acc, avail) ==
    IF i > Len(outbox) THEN acc
    ELSE LET temp == Puffer_serializePacket(outbox[i])
         IN IF Len(acc.content) + Len(temp) + 5 > avail THEN acc
            ELSE Puffer_packLoop(outbox, i + 1,
                     [content |-> acc.content \o pushVarLong(Len(temp)) \o temp,
                      important |-> acc.important \/ outbox[i].important,
                      consumed |-> acc.consumed + 1, single |-> FALSE],
                     avail)

\* The packets of one bundle: the only packet of the outbox without length
\* prefix (single), or what the packing loop takes.
Puffer_pack(outbox, avail) ==
    IF Len(outbox) = 1
    THEN [content |-> << 0 >> \o Puffer_serializePacket(outbox[1]),
          important |-> outbox[1].important, consumed |-> 1, single |-> TRUE]
    ELSE Puffer_packLoop(outbox, 1,
             [content |-> << 0 >>, important |-> FALSE, consumed |-> 0,
              single |-> FALSE], avail)

\* Puffer::build, padding: when the content is not a multiple of the block
\* size, the pad length goes in after the header byte and pad zero bytes
\* at the end.
Puffer_pad(content, bBS) ==
    IF Len(content) % bBS # 0
    THEN << 0 >> \o pushVarLong(bBS - (Len(content) % bBS))
         \o substring(content, 1, Len(content))
         \o zeros(bBS - (Len(content) % bBS))
    ELSE content

\* Puffer::build, the header byte: secure, padded, single, glare position.
Puffer_header(s, padded, single) ==
    (IF s.isSecure THEN 1 ELSE 0) + (IF padded THEN 4 ELSE 0)
    + (IF single THEN 8 ELSE 0) + (IF s.glarePosition THEN 16 ELSE 0)

\* Puffer::build, the bytes of bundle id with the given content: the nonce
\* in windowed mode; the ciphertext with bit 0 of its first byte set and
\* the 8-byte tag when secure (nothing when sealing fails), else the
\* content with that bit cleared.
Puffer_seal(s, id, content) ==
    aeadSeal(s.key, id, content, pushVarLong(id), 8)

Puffer_bundleData(s, id, content) ==
    (IF s.isWindowed THEN pushVarLong(id) ELSE << >>)
    \o (IF s.isSecure
        THEN (IF Puffer_seal(s, id, content).ok
              THEN setSecureBit(Puffer_seal(s, id, content).text)
                   \o Puffer_seal(s, id, content).tag
              ELSE << >>)
        ELSE clearSecureBit(content))

\* Puffer::build, one bundle from what was packed.
Puffer_emit(s, packed, padded, bBS) ==
    LET id == s.lastSentNonce + 1
        ib == InflightBundle(id,
                  Puffer_bundleData(s, id,
                      << Puffer_header(s, Len(padded) # Len(packed.content),
                                       packed.single) >>
                      \o Tail(padded)),
                  packed.important)
    IN [s EXCEPT
          !.outbox = substring(@, packed.consumed, Len(@)),
          !.lastSentNonce = id,
          !.inflightBundles = IF packed.important THEN Append(@, ib) ELSE @,
          !.nonImportantInflightBundles =
              IF packed.important THEN @ ELSE Append(@, ib)]

\* Puffer::build, the fragment size: available - 15 in unsigned
\* arithmetic, so below 15 it wraps to a size no payload reaches.
Puffer_fragSize(avail) ==
    IF avail > 15 THEN avail - 15
    ELSE IF avail = 15 THEN 1
    ELSE VarLongCap

\* The while loop of build().  An iteration that leaves the outbox as it
\* found it repeats forever (hung): a head packet that exceeds the
\* available payload while its payload is a single chunk, and a head
\* packet that fits alone but not with the packing margin while other
\* packets wait behind it.
RECURSIVE Puffer_buildLoop(_, _, _)
Puffer_buildLoop(s, bBS, bMS) ==
    IF Len(s.outbox) = 0 THEN s
    ELSE LET avail == Puffer_available(bBS, bMS)
             fS    == Puffer_fragSize(avail)
             L     == Len(s.outbox[1].payload)
             packed == Puffer_pack(s.outbox, avail)
         IN IF Len(Puffer_serializePacket(s.outbox[1])) > avail
            THEN IF L > 0 /\ L <= fS
                 THEN [s EXCEPT !.hung = TRUE]
                 ELSE Puffer_buildLoop(
                          [s EXCEPT !.outbox = fragmentsOf(Head(@), fS) \o Tail(@)],
                          bBS, bMS)
            ELSE IF packed.consumed = 0
                 THEN [s EXCEPT !.hung = TRUE]
                 ELSE Puffer_buildLoop(
                          Puffer_emit(s, packed, Puffer_pad(packed.content, bBS), bBS),
                          bBS, bMS)

\* Puffer::build: the builder locks its glare position where it stands.
Puffer_build(s, bBS, bMS) ==
    Puffer_buildLoop([s EXCEPT !.glareInited = TRUE], bBS, bMS)

\* Puffer::flush, the heartbeat: when heartbeats are enabled and one is
\* due, it goes to the head of the outbox with the received and the
\* dropped ranges.
Puffer_withHeartbeat(s, clock) ==
    IF /\ s.heartbeatEnabled
       /\ \/ clock > s.lastSent + s.hbMaxSilence
          \/ clock > s.lastSentHeartbeat + s.hbInterval
    THEN [s EXCEPT !.outbox = << heartbeatPacket(s) >> \o @,
                   !.droppedBundles = << >>,
                   !.lastSentHeartbeat = clock]
    ELSE s

\* Puffer::flush, the bundle to return: a non-important bundle first (it
\* leaves its list), else the important bundle under the resend cursor
\* (it stays inflight).
Puffer_pick(s, clock) ==
    IF Len(s.nonImportantInflightBundles) > 0
    THEN [s |-> [s EXCEPT !.nonImportantInflightBundles = Tail(@),
                          !.lastSent =
                              IF Len(Head(s.nonImportantInflightBundles).data) > 0
                              THEN clock ELSE @],
          ret |-> Head(s.nonImportantInflightBundles).data]
    ELSE IF s.resendPosition < Len(s.inflightBundles)
    THEN [s |-> [s EXCEPT !.resendPosition = @ + 1,
                          !.lastSent =
                              IF Len(s.inflightBundles[s.resendPosition + 1].data) > 0
                              THEN clock ELSE @],
          ret |-> s.inflightBundles[s.resendPosition + 1].data]
    ELSE [s |-> s, ret |-> << >>]

Puffer_buildIfAny(s, bBS, bMS) ==
    IF Len(s.outbox) > 0 THEN Puffer_build(s, bBS, bMS) ELSE s

Puffer_flushBuilt(s, clock) ==
    IF s.hung THEN [s |-> s, ret |-> << >>] ELSE Puffer_pick(s, clock)

\* Puffer::flush: the state after the call and the bytes it returns.
Puffer_flush(s, bBS, bMS, clock) ==
    Puffer_flushBuilt(Puffer_buildIfAny(Puffer_withHeartbeat(s, clock), bBS, bMS),
                      clock)

\* Puffer::update: past the timeout the disconnect listener hears the
\* reason {0: "Timeout"}; nothing else changes.
Puffer_update(s, clock) ==
    IF s.timeoutEnabled /\ clock > s.lastSeen + s.timeoutDuration
    THEN Hear(s, "disconnect", << 0, 84, 105, 109, 101, 111, 117, 116 >>)
    ELSE s

(***************************************************************************)
(* Xi::Node (include/Rho/Node.hpp): the handshake state machine on top of  *)
(* a Puffer.  An X25519 secret is 0 (the empty string) or a 32-byte secret *)
(* named 1, 2, ...; a public key is the 32-byte string whose first byte is *)
(* the group element; a shared secret or derived key is 0 (empty) or a     *)
(* 32-byte string named by a positive number.                              *)
(***************************************************************************)
\* crypto_x25519 on a group small enough to enumerate: exponentiation
\* modulo 251, so that both sides of an exchange reach the same element.
RECURSIVE crypto_x25519(_, _)
crypto_x25519(secret, element) ==
    IF secret = 0 THEN 1 ELSE (element * crypto_x25519(secret - 1, element)) % 251

\* Xi::publicKey: empty unless the secret has 32 bytes.
publicKey(secret) ==
    IF secret = 0 THEN << >> ELSE << crypto_x25519(secret, 6) >> \o zeros(31)

\* Xi::sharedKey: empty unless both keys have 32 bytes.
sharedKey(secret, public) ==
    IF secret = 0 \/ Len(public) # 32 THEN 0
    ELSE 1 + crypto_x25519(secret, public[1])

\* Xi::kdf(secret, info, 32): a 32-byte key determined by the secret and
\* the info string.
kdf(secret, info) ==
    1 + 4 * secret + (IF info = "RHO_SWITCH" THEN 1 ELSE IF info = "" THEN 2 ELSE 3)

\* Xi::aeadSeal(key, nonce, aad, plaintext): ciphertext followed by the
\* 16-byte tag.
aeadSealString(k, nonce, aad, plaintext) ==
    aeadSeal(k, nonce, plaintext, aad, 16).text
    \o aeadSeal(k, nonce, plaintext, aad, 16).tag

\* Xi::aeadOpen(key, nonce, aad, sealed): the plaintext, or the empty
\* string when the tag does not verify.
aeadOpenString(k, nonce, aad, sealed) ==
    IF Len(sealed) < 16 THEN << >>
    ELSE LET opened == aeadOpen(k, nonce, substring(sealed, 0, Len(sealed) - 16),
                                aad, substring(sealed, Len(sealed) - 16, Len(sealed)),
                                16)
         IN IF opened.ok THEN opened.text ELSE << >>

\* A freshly constructed Node at clock value clock.  heard is the record of
\* NodeListener invocations; crashed records a copy that ran off the end of
\* memory.
NewNode(clock) ==
    [tunnel |-> NewPuffer(clock), live |-> FALSE, lastSentSack |-> 0,
     activationTimeout |-> 2000,
     myEphemeralSec |-> 0, myEphemeralPub |-> << >>,
     theirEphemeralPub |-> << >>, tempSharedSecret |-> 0,
     lastSwitchCode |-> << >>,
     tunnelNeedsUpgrade |-> FALSE, pendingNextKey |-> 0,
     heard |-> << >>, crashed |-> FALSE]

\* A NodeListener invocation, recorded in call order.
Tell(n, kind, arg) == [n EXCEPT !.heard = Append(@, [kind |-> kind, arg |-> arg])]

\* Node::initEphemeral: fresh is the secret generateKeyPair() draws.
initEphemeral(n, fresh) ==
    IF n.myEphemeralSec = 0
    THEN [n EXCEPT !.myEphemeralSec = fresh, !.myEphemeralPub = publicKey(fresh)]
    ELSE n

\* Node::destroy
destroy(n) ==
    [n EXCEPT !.live = FALSE, !.myEphemeralSec = 0, !.tempSharedSecret = 0]

\* tunnel.outbox.push(p) for a control packet with the given payload.
Node_control(n, payload, important) ==
    [n EXCEPT !.tunnel.outbox =
        Append(@, [Packet(payload, 0) EXCEPT !.important = important])]

\* serializeTypedDataArray and serializeStatics of empty arrays: two counts.
NoData == << 0, 0 >>

\* Node::push: refused until the session is live, and on channel 0.
Node_push(n, msg) ==
    IF ~n.live \/ msg.channel = 0 THEN n
    ELSE [n EXCEPT !.tunnel.outbox = Append(@, msg)]

\* Node::probe with no data
Node_probe(n) == Node_control(n, pushVarLong(10) \o << 0 >>, FALSE)

\* Node::announce with no data
Node_announce(n, fresh) ==
    Node_control(initEphemeral(n, fresh),
                 pushVarLong(11) \o << 0 >> \o initEphemeral(n, fresh).myEphemeralPub,
                 FALSE)

\* Node::disconnect with no data
Node_disconnect(n) ==
    IF ~n.live THEN n
    ELSE destroy(Tell(Node_control(n, pushVarLong(2) \o << 0 >>, TRUE),
                      "disconnect", "local"))

\* Node::requestSwitch with no data and no statics: fresh is the secret
\* generateKeyPair() draws, code the 8 bytes randomBytes(8) returns.
requestSwitchSealed(n, code) ==
    aeadSealString(kdf(n.tempSharedSecret, "RHO_SWITCH"), 0, code, NoData)

Node_requestSwitch(n, destEphPub, fresh, code) ==
    IF n.live THEN n
    ELSE LET n1 == [initEphemeral(n, fresh) EXCEPT
                       !.lastSwitchCode = code,
                       !.theirEphemeralPub = destEphPub,
                       !.tempSharedSecret =
                           sharedKey(initEphemeral(n, fresh).myEphemeralSec, destEphPub)]
         IN Node_control(n1, pushVarLong(20) \o code \o n1.myEphemeralPub
                             \o requestSwitchSealed(n1, code), TRUE)

\* Node::acceptSwitch without the test of live: a live Node answers again.
Node_acceptSwitchWhileLive(n, code) ==
    IF n.tempSharedSecret = 0 THEN n
    ELSE Tell([Node_control(n, pushVarLong(21) \o code
                                \o aeadSealString(kdf(n.tempSharedSecret, "RHO_SWITCH"),
                                                  1, code, NoData), TRUE)
                 EXCEPT !.tunnelNeedsUpgrade = TRUE,
                        !.pendingNextKey = kdf(n.tempSharedSecret, ""),
                        !.live = TRUE],
              "live", << >>)

\* Node::acceptSwitch with no data and no statics
Node_acceptSwitch(n, code) ==
    IF n.live \/ n.tempSharedSecret = 0 THEN n
    ELSE Tell([Node_control(n, pushVarLong(21) \o code
                                \o aeadSealString(kdf(n.tempSharedSecret, "RHO_SWITCH"),
                                                  1, code, NoData), TRUE)
                 EXCEPT !.tunnelNeedsUpgrade = TRUE,
                        !.pendingNextKey = kdf(n.tempSharedSecret, ""),
                        !.live = TRUE],
              "live", << >>)

\* Node::parseTypedDataArray: the cursor after the array.
RECURSIVE parseTypedDataLoop(_, _, _, _)
parseTypedDataLoop(s, at, i, count) ==
    IF i >= count \/ at >= Len(s) THEN at
    ELSE LET ty  == readVarLong(s, at)
             len == readVarLong(s, ty.at)
         IN IF len.at + len.value > Len(s) THEN len.at
            ELSE parseTypedDataLoop(s, len.at + len.value, i + 1, count)

parseTypedDataArray(s, at) ==
    parseTypedDataLoop(s, readVarLong(s, at).at, 0, readVarLong(s, at).value)

\* code.pushEach(msg.payload.data() + cursor, n): the n bytes at the cursor;
\* bytes past the end of the payload read as whatever lies there (junk).
pushEach(payload, cursor, n, junk) ==
    [i \in 1..n |-> IF cursor + i <= Len(payload) THEN payload[cursor + i] ELSE junk]

\* Node::handlePacket, command 1 (ACK): anchor, count, ranges.
Node_ack(n, payload, cursor) ==
    IF ~n.tunnel.isWindowed THEN n
    ELSE LET anchor == readVarLong(payload, cursor)
             count  == readVarLong(payload, anchor.at)
         IN [n EXCEPT !.tunnel =
                Puffer_ackLoop(@, payload, count.at, 0, count.value).s]

\* Node::handlePacket, command 11 (ANNOUNCE)
Node_onAnnounce(n, payload, cursor) ==
    LET at == parseTypedDataArray(payload, cursor)
    IN IF at + 32 <= Len(payload)
       THEN Tell([n EXCEPT !.theirEphemeralPub = substring(payload, at, at + 32)],
                 "announce", substring(payload, at, at + 32))
       ELSE Tell(n, "announce", << >>)

\* Node::handlePacket, command 20 (SWITCH_REQ): the peer's ephemeral and the
\* shared secret are stored, then the request is opened and, when it opens,
\* handed to the listener.
Node_onSwitchRequest(n, payload, cursor, fresh) ==
    IF n.live THEN n
    ELSE IF Len(payload) < cursor + 40 THEN initEphemeral(n, fresh)
    ELSE LET n1 == initEphemeral(n, fresh)
             code     == substring(payload, cursor, cursor + 8)
             theirEph == substring(payload, cursor + 8, cursor + 40)
             sealed   == substring(payload, cursor + 40, Len(payload))
             n2 == [n1 EXCEPT !.theirEphemeralPub = theirEph,
                              !.tempSharedSecret = sharedKey(n1.myEphemeralSec, theirEph)]
             plain == aeadOpenString(kdf(n2.tempSharedSecret, "RHO_SWITCH"), 0,
                                     code, sealed)
         IN IF Len(plain) = 0 THEN n2
            ELSE Tell(n2, "switchRequest", code)

\* Node::handlePacket, command 21 (SWITCH_RES).  accept is what the
\* listener's onSwitchAccepted returns.  The 8 code bytes are copied
\* without a length check: past the end of the payload they are junk, and
\* the length of the sealed part then wraps around (crashed).
Node_onSwitchResponse(n, payload, cursor, accept, junk) ==
    IF Len(n.lastSwitchCode) = 0 \/ n.tempSharedSecret = 0 THEN n
    ELSE IF ~constantTimeEquals(pushEach(payload, cursor, 8, junk),
                                n.lastSwitchCode, 8)
    THEN n
    ELSE IF Len(payload) < cursor + 8 THEN [n EXCEPT !.crashed = TRUE]
    ELSE IF Len(aeadOpenString(kdf(n.tempSharedSecret, "RHO_SWITCH"), 1,
                               substring(payload, cursor, cursor + 8),
                               substring(payload, cursor + 8, Len(payload)))) = 0
    THEN n
    ELSE IF accept
    THEN Tell(Tell([n EXCEPT !.live = TRUE,
                             !.tunnel = Puffer_enableSecurity(@, kdf(n.tempSharedSecret, ""))],
                   "switchAccepted", TRUE),
              "live", << >>)
    ELSE Tell([n EXCEPT !.live = TRUE], "switchAccepted", FALSE)

\* Node::handlePacket
Node_command(n, msg, cmd, accept, fresh, junk) ==
    IF cmd.value = 1 THEN Node_ack(n, msg.payload, cmd.at)
    ELSE IF cmd.value = 2
    THEN (IF n.live THEN destroy(Tell(n, "disconnect", "remote")) ELSE n)
    ELSE IF cmd.value = 10 THEN Tell(n, "probe", << >>)
    ELSE IF cmd.value = 11 THEN Node_onAnnounce(n, msg.payload, cmd.at)
    ELSE IF cmd.value = 20 THEN Node_onSwitchRequest(n, msg.payload, cmd.at, fresh)
    ELSE IF cmd.value = 21
    THEN Node_onSwitchResponse(n, msg.payload, cmd.at, accept, junk)
    ELSE n

handlePacket(n, msg, accept, fresh, junk) ==
    IF msg.channel # 0
    THEN (IF n.live THEN Tell(n, "message", msg) ELSE n)
    ELSE Node_command(n, msg, readVarLong(msg.payload, 0), accept, fresh, junk)

\* Node::parse, the loop that drains the inbox.
RECURSIVE Node_drain(_, _, _, _)
Node_drain(n, accept, fresh, junk) ==
    IF Len(n.tunnel.inbox) = 0 \/ n.crashed THEN n
    ELSE Node_drain(handlePacket([n EXCEPT !.tunnel.inbox = Tail(@)],
                                 Head(n.tunnel.inbox), accept, fresh, junk),
                    accept, fresh, junk)

\* Node::parse: n is the Node after the call; exit and inbox are what
\* tunnel.parse returned through and handed to the packet listener.
Node_parse(n, bundle, clock, accept, fresh, junk) ==
    ByValue(LAMBDA r : [n |-> Node_drain([n EXCEPT !.tunnel = r.s],
                                         accept, fresh, junk),
                        exit |-> r.exit, inbox |-> r.s.inbox],
            Puffer_parse(n.tunnel, bundle, clock))

\* Node::sendSack
Node_sendSack(n, clock) ==
    IF ~n.tunnel.isWindowed \/ Len(showReceived(n.tunnel)) = 0
    THEN [n EXCEPT !.lastSentSack = clock]
    ELSE [n EXCEPT
            !.lastSentSack = clock,
            !.tunnel.outbox =
                Append(@, [Packet(pushVarLong(1)
                                  \o pushVarLong(n.tunnel.lastReceivedNonce)
                                  \o pushVarLong(Len(showReceived(n.tunnel)))
                                  \o pushRanges(showReceived(n.tunnel)), 0)
                             EXCEPT !.important = FALSE, !.bypassHOL = TRUE])]

\* Node::flush, the key rotation after the Puffer was flushed.
Node_upgrade(n) ==
    IF n.tunnelNeedsUpgrade /\ KeySize(n.pendingNextKey) = 32
    THEN [n EXCEPT !.tunnel = Puffer_enableSecurity(@, n.pendingNextKey),
                   !.tunnelNeedsUpgrade = FALSE,
                   !.pendingNextKey = 0]
    ELSE n

Node_flushTunnel(n, f) == [n |-> Node_upgrade([n EXCEPT !.tunnel = f.s]), ret |-> f.ret]

Node_withSack(n, clock) ==
    IF n.live /\ n.tunnel.isWindowed
       /\ 5 * (clock - n.lastSentSack) > 4 * n.activationTimeout
    THEN Node_sendSack(n, clock) ELSE n

\* Node::flush: the state after the call and the bytes it returns.
Node_flush(n, bBS, bMS, clock) ==
    Node_flushTunnel(Node_withSack(n, clock),
                     Puffer_flush(Node_withSack(n, clock).tunnel, bBS, bMS, clock))

(***************************************************************************)
(* The system of two Nodes.  Either endpoint announces its ephemeral key,  *)
(* A requests the switch with the key it heard, B accepts the request its  *)
(* listener was handed, both push application messages and flush.  The     *)
(* link hands each bundle to the other endpoint at most once and in        *)
(* emission order, or loses it.                                            *)
(***************************************************************************)
Peer(t) == IF t = "A" THEN "B" ELSE "A"

\* Bounds of the run.
MaxAnnounce == 2
MaxNodePush == 1
MaxNodeFlush == 5

\* What generateKeyPair() and randomBytes(8) draw at each endpoint.
FreshSecret(t) == IF t = "A" THEN 3 ELSE 5
FreshCode(t) == IF t = "A" THEN << 11, 12, 13, 14, 15, 16, 17, 18 >>
                ELSE << 21, 22, 23, 24, 25, 26, 27, 28 >>

\* flush(bBS, bMS) arguments of the Nodes: block size 4 and a 90-byte
\* bundle limit give 68 bytes of available payload, enough for a switch
\* request (62 bytes) in one bundle.
NodeSizes == << 4, 90 >>

\* The application messages: a short one, and one that does not fit a
\* bundle together with a switch response.
NodePushSet ==
    { [Packet(<< 65, 66 >>, 1) EXCEPT !.id = 1],
      [Packet([i \in 1..34 |-> 100 + i], 1) EXCEPT !.id = 2] }

\* The variables of the Tunnel pair, idle while the Nodes run.
tunnelVars == << tun, wire, sent, accepted, delivered, inOrder, nextIdx,
                 lastFlush, rail, reach >>

InitNode ==
    /\ node = [t \in Tunnels |-> NewNode(0)]
    /\ air = << >>
    /\ log = << >>
    /\ now = 0
    /\ calls = [announce |-> 0, push |-> 0, flush |-> 0, inject |-> 0,
                next |-> [t \in Tunnels |-> 1], lost |-> FALSE]
    /\ lastOp = NoOp
    /\ rail = << >>
    /\ reach = << >>
    /\ tun = [t \in Tunnels |-> NewTunnel(0)]
    /\ wire = << >>
    /\ sent = << >>
    /\ accepted = {}
    /\ delivered = {}
    /\ inOrder = TRUE
    /\ nextIdx = 1
    /\ lastFlush = [outbox |-> << >>, ret |-> << >>, pre |-> NewTunnel(0)]

NodeAlive(t) == ~node[t].crashed /\ ~node[t].tunnel.hung

\* The key a Puffer works with: 0 while it is not secure.
KeyInUse(s) == IF s.isSecure THEN s.key ELSE 0

\* The secure bit of a bundle on the wire: bit 0 of the byte after the
\* nonce.
WireSecure(s, bundle) ==
    LET at == IF s.isWindowed THEN readVarLong(bundle, 0).at ELSE 0
    IN at < Len(bundle) /\ bundle[at + 1] % 2 = 1

\* Node::announce at t
NAnnounce(t) ==
    /\ NodeAlive(t)
    /\ calls.announce < MaxAnnounce
    /\ node' = [node EXCEPT ![t] = Node_announce(@, FreshSecret(t))]
    /\ calls' = [calls EXCEPT !.announce = @ + 1]
    /\ lastOp' = [NoOp EXCEPT !.op = "announce", !.t = t]
    /\ UNCHANGED << air, log, now >>
    /\ UNCHANGED tunnelVars

\* Node::requestSwitch at A, with the ephemeral key A heard announced
NRequestSwitch ==
    /\ NodeAlive("A")
    /\ Len(node["A"].theirEphemeralPub) = 32
    /\ Len(node["A"].lastSwitchCode) = 0
    /\ node' = [node EXCEPT !["A"] =
                   Node_requestSwitch(@, node["A"].theirEphemeralPub,
                                      FreshSecret("A"), FreshCode("A"))]
    /\ lastOp' = [NoOp EXCEPT !.op = "requestSwitch", !.t = "A"]
    /\ UNCHANGED << air, log, now, calls >>
    /\ UNCHANGED tunnelVars

\* The switch requests the listener of n was handed.
RequestsHeard(n) == SelectSeq(n.heard, LAMBDA e : e.kind = "switchRequest")

\* Node::acceptSwitch at B, with the code of the request its listener heard
NAcceptSwitch ==
    /\ NodeAlive("B")
    /\ ~node["B"].live
    /\ Len(RequestsHeard(node["B"])) > 0
    /\ node' = [node EXCEPT !["B"] =
                   Node_acceptSwitch(@, RequestsHeard(node["B"])[1].arg)]
    /\ lastOp' = [NoOp EXCEPT !.op = "acceptSwitch", !.t = "B"]
    /\ UNCHANGED << air, log, now, calls >>
    /\ UNCHANGED tunnelVars

\* Node::push at t
NPush(t, msg) ==
    /\ NodeAlive(t)
    /\ calls.push < MaxNodePush
    /\ node' = [node EXCEPT ![t] = Node_push(@, msg)]
    /\ calls' = [calls EXCEPT !.push = @ + 1]
    /\ lastOp' = [NoOp EXCEPT !.op = "push", !.t = t, !.arg = msg,
                              !.old = node[t].live]
    /\ UNCHANGED << air, log, now >>
    /\ UNCHANGED tunnelVars

\* The handshake is over: the listeners of both endpoints heard onLive.
HeardLive(n) == \E k \in 1..Len(n.heard) : n.heard[k].kind = "live"
Handshaken == HeardLive(node["A"]) /\ HeardLive(node["B"])

\* Node::flush at t; the returned bytes go on the air with what the sender
\* was when flush was called: its key in use, whether the bytes carry the
\* secure bit, whether the handshake was over and how many parse calls had
\* been made by then.
NFlush(t) ==
    /\ NodeAlive(t)
    /\ calls.flush < MaxNodeFlush
    /\ LET f == Node_flush(node[t], NodeSizes[1], NodeSizes[2], now)
       IN /\ node' = [node EXCEPT ![t] = f.n]
          /\ air' = IF Len(f.ret) > 0
                    THEN Append(air, [src |-> t, data |-> f.ret,
                                      key |-> KeyInUse(node[t].tunnel),
                                      sealed |-> WireSecure(node[t].tunnel, f.ret),
                                      switched |-> Handshaken,
                                      at |-> Len(log)])
                    ELSE air
    /\ calls' = [calls EXCEPT !.flush = @ + 1]
    /\ lastOp' = [NoOp EXCEPT !.op = "flush", !.t = t]
    /\ UNCHANGED << log, now >>
    /\ UNCHANGED tunnelVars

\* Node::parse at t of the bytes b, which are or derive from air[i]; accept
\* is what the listener of t answers to onSwitchAccepted.  The log keeps
\* the exit the Puffer took, the key t worked with, the packets the bundle
\* put into the inbox, the Node before the call, and whether the link has
\* handed over every bundle so far, in emission order and unchanged.
NReceive(t, i, b, accept, lost) ==
    /\ NodeAlive(t)
    /\ \E r \in { Node_parse(node[t], b, now, accept, FreshSecret(t), 0) } :
          /\ node' = [node EXCEPT ![t] = r.n]
          /\ log' = Append(log, [to |-> t, idx |-> i, exit |-> r.exit,
                                 rxKey |-> KeyInUse(node[t].tunnel),
                                 genuine |-> b = air[i].data,
                                 inbox |-> r.inbox,
                                 pre |-> node[t],
                                 inOrder |-> ~lost])
    /\ lastOp' = [NoOp EXCEPT !.op = "parse", !.t = t, !.arg = b]
    /\ UNCHANGED now
    /\ UNCHANGED tunnelVars

\* Handing over air[i] next leaves an earlier bundle of the same sender
\* behind, or an earlier hand-over did.
Skips(i) ==
    \/ calls.lost
    \/ \E j \in calls.next[Peer(air[i].src)]..(i - 1) : air[j].src = air[i].src

\* The link hands air[i] to the peer of its sender; the bundles before it
\* that were not handed over are lost.
NDeliver(i, accept) ==
    /\ i \in 1..Len(air)
    /\ i >= calls.next[Peer(air[i].src)]
    /\ NReceive(Peer(air[i].src), i, air[i].data, accept, Skips(i))
    /\ calls' = [calls EXCEPT !.next[Peer(air[i].src)] = i + 1,
                              !.lost = Skips(i)]
    /\ UNCHANGED air

\* A bundle with one byte changed on its way: at offset 8, within the
\* switch code of a switch packet, or 8 bytes before the end, within its
\* sealed part.
Garbled(b) ==
    IF Len(b) < 20 THEN {}
    ELSE { [b EXCEPT ![9] = (@ + 1) % 256],
           [b EXCEPT ![Len(b) - 8] = (@ + 1) % 256] }

MaxGarble == 1

\* The link hands the peer a garbled air[i] in place of air[i].
NGarble(i, b) ==
    /\ i \in 1..Len(air)
    /\ i >= calls.next[Peer(air[i].src)]
    /\ calls.inject < MaxGarble
    /\ b \in Garbled(air[i].data)
    /\ NReceive(Peer(air[i].src), i, b, TRUE, TRUE)
    /\ calls' = [calls EXCEPT
                   !.next[Peer(air[i].src)] = i + 1,
                   !.inject = @ + 1,
                   !.lost = TRUE]
    /\ UNCHANGED air

\* Two fresh Nodes that announce to each other.
NextGlare ==
    \/ \E t \in Tunnels : NAnnounce(t)
    \/ \E t \in Tunnels : NFlush(t)
    \/ \E i \in 1..Len(air) : NDeliver(i, TRUE)

SpecGlare == InitNode /\ [][NextGlare]_vars

\* The switch handshake: B announces, A requests, B accepts, and the
\* applications push.
NextNode ==
    \/ NAnnounce("B")
    \/ NRequestSwitch
    \/ NAcceptSwitch
    \/ \E t \in Tunnels, msg \in NodePushSet : NPush(t, msg)
    \/ \E t \in Tunnels : NFlush(t)
    \/ \E i \in 1..Len(air), accept \in BOOLEAN : NDeliver(i, accept)

SpecNode == InitNode /\ [][NextNode]_vars

\* The handshake over a link that garbles bundles.
NextGarble ==
    \/ NAnnounce("B")
    \/ NRequestSwitch
    \/ NAcceptSwitch
    \/ \E t \in Tunnels : NFlush(t)
    \/ \E i \in 1..Len(air) : NDeliver(i, TRUE)
    \/ \E i \in 1..Len(air) : \E b \in Garbled(air[i].data) : NGarble(i, b)

SpecGarble == InitNode /\ [][NextGarble]_vars

(***************************************************************************)
(* Properties of the Puffer and of the handshake.                          *)
(***************************************************************************)
\* The first bundle t emitted, when t emitted it before any bundle was
\* parsed at either endpoint; 0 when there is none.
FirstBlind(t) ==
    LET own == {i \in 1..Len(air) : air[i].src = t}
        i0  == CHOOSE i \in own : \A j \in own : i <= j
    IN IF own # {} /\ air[i0].at = 0 THEN i0 ELSE 0

\* The log entry of the parse of air[i]; defined when Parsed(i).
Parsed(i) == \E k \in 1..Len(log) : log[k].idx = i /\ log[k].genuine
ParseOf(i) == log[CHOOSE k \in 1..Len(log) : log[k].idx = i /\ log[k].genuine]

\* Both endpoints built before either received, and each has parsed the
\* other's first bundle.
FirstCrossing ==
    /\ FirstBlind("A") # 0 /\ FirstBlind("B") # 0
    /\ Parsed(FirstBlind("A")) /\ Parsed(FirstBlind("B"))

\* C12: when both endpoints build bundles before either has locked its
\* glare bit by receiving, exactly one side's bundles survive the first
\* crossing and the other side's are dropped; and a locked glare bit does
\* not change afterwards.
C12_GlareOneSideSurvives ==
    /\ FirstCrossing =>
          (ParseOf(FirstBlind("A")).exit = "done")
              # (ParseOf(FirstBlind("B")).exit = "done")
    /\ \A k \in 1..Len(log) :
          log[k].pre.tunnel.glareInited =>
              node[log[k].to].tunnel.glarePosition
                  = log[k].pre.tunnel.glarePosition

\* The key air[i] was sealed with: 0 for a plaintext bundle.
SealKey(i) == IF air[i].sealed THEN air[i].key ELSE 0

\* Every bundle emitted by an endpoint that has switched is sealed with
\* its new key.
EmittedUnderCurrentKey ==
    \A i \in 1..Len(air) : air[i].key # 0 => air[i].sealed

\* Every bundle the link handed over, in emission order and with none
\* lost, met a receiver working with the key the bundle was sealed with.
OpenedUnderSealKey ==
    \A k \in 1..Len(log) :
        (log[k].genuine /\ log[k].inOrder) => log[k].rxKey = SealKey(log[k].idx)

\* C13: a bundle emitted before the switch is read by the peer with the
\* pre-upgrade key, the first bundle emitted after the switch uses the new
\* key, and the peer switches at the matching bundle: no bundle meets a
\* receiver that works with another key than the one it was sealed with.
C13_AtomicKeyRotation == EmittedUnderCurrentKey /\ OpenedUnderSealKey

SealedBundlesAuthenticate ==
    Handshaken =>
        \A k \in 1..Len(log) :
            (log[k].genuine /\ log[k].inOrder /\ air[log[k].idx].switched
               /\ air[log[k].idx].sealed)
                => log[k].exit = "done"

\* The listener of n answered false to onSwitchAccepted and never true.
Refused(n) ==
    /\ \E k \in 1..Len(n.heard) :
          n.heard[k].kind = "switchAccepted" /\ n.heard[k].arg = FALSE
    /\ ~HeardLive(n)

\* No application packet waits in the outbox of n.
NoPushQueued(n) ==
    \A k \in 1..Len(n.tunnel.outbox) : n.tunnel.outbox[k].channel = 0

RefusedInstallsNoKey ==
    \A t \in Tunnels : Refused(node[t]) => KeyInUse(node[t].tunnel) = 0

\* After a refusal a push of the application is queued all the same.
RefusedPushRejected ==
    \A t \in Tunnels : Refused(node[t]) => NoPushQueued(node[t])

\* The fields of a Node that the switch handshake works on.
SwitchState(n) ==
    << n.live, n.theirEphemeralPub, n.tempSharedSecret, n.lastSwitchCode,
       n.pendingNextKey >>

\* msg is a switch request or a switch response.
IsSwitchPacket(msg) ==
    /\ msg.channel = 0
    /\ readVarLong(msg.payload, 0).value \in {20, 21}

\* The last step was a parse of a garbled bundle that carried a switch
\* packet, and the listener was told nothing: the packet was dropped.
SwitchPacketDropped ==
    /\ lastOp.op = "parse"
    /\ Len(log) > 0
    /\ ~log[Len(log)].genuine
    /\ \E k \in 1..Len(log[Len(log)].inbox) :
          IsSwitchPacket(log[Len(log)].inbox[k])
    /\ node[log[Len(log)].to].heard = log[Len(log)].pre.heard

\* C16: a switch request or response whose aeadOpen fails, or a response
\* whose code does not match lastSwitchCode, is dropped and leaves live,
\* the stored peer ephemeral public key, the temporary shared secret, the
\* last switch code and the pending key as they were.
C16_InvalidSwitchLeavesState ==
    SwitchPacketDropped =>
        SwitchState(node[log[Len(log)].to]) = SwitchState(log[Len(log)].pre)

\* The same for a dropped switch response alone.
DroppedResponseLeavesState ==
    (SwitchPacketDropped /\ log[Len(log)].to = "A") =>
        SwitchState(node["A"]) = SwitchState(log[Len(log)].pre)

ResponseDropSeen == SwitchPacketDropped /\ log[Len(log)].to = "A"


(***************************************************************************)
(* Tunnel: disconnect and update, and two Tunnels talking to each other     *)
(* over a link that loses bundles, with the clock moving.                   *)
(***************************************************************************)
\* The reason map {0: "Timeout"}: its key, then the bytes of its value.
TimeoutReason == << 0, 84, 105, 109, 101, 111, 117, 116 >>

\* Map<u64, String>::serialize for a map of one entry: the entry count,
\* the key, the length of the value and the value.
serializeMap(m) ==
    pushVarLong(1) \o pushVarLong(m[1]) \o pushVarLong(Len(m) - 1) \o Tail(m)

\* Tunnel::disconnect: an important control packet of type 1000 with the
\* reason map is pushed; nothing else changes.
disconnect(s, reason) ==
    [s EXCEPT !.outbox =
        Append(@, Packet(pushVarLong(1000) \o serializeMap(reason), 0))]

\* An update that does not look at destroyAfterFlush.
updateRepeating(s, clock) ==
    IF /\ s.disconnectTimeout > 0
       /\ clock > s.lastSeen + s.disconnectTimeout
    THEN [Hear(disconnect(s, TimeoutReason), "disconnect",
               serializeMap(TimeoutReason))
            EXCEPT !.destroyAfterFlush = TRUE]
    ELSE s

\* Tunnel::update at clock value clock.
update(s, clock) ==
    IF /\ s.disconnectTimeout > 0
       /\ ~s.destroyAfterFlush
       /\ clock > s.lastSeen + s.disconnectTimeout
    THEN [Hear(disconnect(s, TimeoutReason), "disconnect",
               serializeMap(TimeoutReason))
            EXCEPT !.destroyAfterFlush = TRUE]
    ELSE s

\* Bounds of the repair runs.
MaxRepairPush == 2
MaxRepairFlush == 4
MaxRepairTick == 1
MaxNack == 1

\* flush(bBS, bMS) arguments and the step of the clock: past the heartbeat
\* interval (aliveTimeout / 2.5), short of aliveTimeout.
RepairSizes == << 4, 46 >>
RepairTick == 4000

\* The k-th message of the application at A.
RepairPacket(k) == [Packet(<< 64 + k >>, 1) EXCEPT !.id = k]

idleVars == << wire, sent, accepted, delivered, inOrder, nextIdx, lastFlush,
              node, rail, reach >>

\* Two windowed Tunnels.
InitRepair ==
    /\ tun = [t \in Tunnels |-> enableWindowing(NewTunnel(0))]
    /\ now = 0
    /\ air = << >>
    /\ log = << >>
    /\ calls = [push |-> 0, flush |-> 0, tick |-> 0, inject |-> 0,
                next |-> [t \in Tunnels |-> 1], lost |-> FALSE]
    /\ lastOp = NoOp
    /\ rail = << >>
    /\ reach = << >>
    /\ wire = << >>
    /\ sent = << >>
    /\ accepted = {}
    /\ delivered = {}
    /\ inOrder = TRUE
    /\ nextIdx = 1
    /\ lastFlush = [outbox |-> << >>, ret |-> << >>, pre |-> NewTunnel(0)]
    /\ node = << >>

\* Tunnel::push at A of the next message.
RPush ==
    /\ Alive("A")
    /\ calls.push < MaxRepairPush
    /\ tun' = [tun EXCEPT !["A"].outbox = Append(@, RepairPacket(calls.push + 1))]
    /\ calls' = [calls EXCEPT !.push = @ + 1]
    /\ lastOp' = [NoOp EXCEPT !.op = "push", !.pre = tun["A"]]
    /\ UNCHANGED << now, air, log >>
    /\ UNCHANGED idleVars

\* Tunnel::flush at t; the returned bytes go on the air together with the
\* Tunnel that emitted them, as it was when flush was called.
RFlush(t) ==
    /\ Alive(t)
    /\ calls.flush < MaxRepairFlush
    /\ LET f == flush(tun[t], RepairSizes[1], RepairSizes[2], now)
       IN /\ tun' = [tun EXCEPT ![t] = f.s]
          /\ air' = IF Len(f.ret) > 0
                    THEN Append(air, [src |-> t, data |-> f.ret, from |-> tun[t]])
                    ELSE air
          /\ lastOp' = [NoOp EXCEPT !.op = "flush", !.t = t, !.arg = f.ret,
                                    !.pre = tun[t]]
    /\ calls' = [calls EXCEPT !.flush = @ + 1]
    /\ UNCHANGED << now, log >>
    /\ UNCHANGED idleVars

\* The link hands air[i] to the peer of its sender, which parses it; the
\* bundles of that sender before it that were not handed over are lost.
RDeliver(i) ==
    /\ i \in 1..Len(air)
    /\ i >= calls.next[Peer(air[i].src)]
    /\ Alive(Peer(air[i].src))
    /\ LET t == Peer(air[i].src)
           r == parse(tun[t], air[i].data, now, 0)
       IN /\ tun' = [tun EXCEPT ![t] = r.s]
          /\ log' = Append(log, [to |-> t, idx |-> i, exit |-> r.exit,
                                 pre |-> tun[t]])
          /\ lastOp' = [NoOp EXCEPT !.op = "parse", !.t = t,
                                    !.arg = air[i].data, !.exit = r.exit,
                                    !.pre = tun[t]]
          /\ calls' = [calls EXCEPT !.next[t] = i + 1]
    /\ UNCHANGED << now, air >>
    /\ UNCHANGED idleVars

\* Xi::millis() moves on.
RTick ==
    /\ calls.tick < MaxRepairTick
    /\ now' = now + RepairTick
    /\ calls' = [calls EXCEPT !.tick = @ + 1]
    /\ lastOp' = [NoOp EXCEPT !.op = "tick"]
    /\ UNCHANGED << tun, air, log >>
    /\ UNCHANGED idleVars


\* The ids a peer reports as explicitly dropped.
NackSet == { << 2 >>, << 1, 3 >> }

\* The heartbeat bundle of a peer in state s whose list of explicitly
\* dropped ids is un: the Tunnel after building it.
NackBuilt(s, un) ==
    emitBundle([s EXCEPT !.outbox =
                   << heartbeatPacket([s EXCEPT !.droppedBundles = un]) >>],
               RepairSizes[1], RepairSizes[2])

\* B, which keeps the explicitly dropped ids un, emits a heartbeat and the
\* link hands it to A, which parses it.
RNack(un) ==
    /\ Alive("A")
    /\ calls.inject < MaxNack
    /\ Len(tun["A"].inflightBundles) > 0
    /\ Len(tun["B"].outbox) = 0
    /\ LET built == NackBuilt(tun["B"], un)
           data  == built.nonImportantInflightBundles[
                        Len(built.nonImportantInflightBundles)].data
           r     == parse(tun["A"], data, now, 0)
       IN /\ tun' = [tun EXCEPT
                       !["A"] = r.s,
                       !["B"] = [built EXCEPT !.nonImportantInflightBundles =
                                    tun["B"].nonImportantInflightBundles]]
          /\ air' = Append(air, [src |-> "B", data |-> data,
                                 from |-> [tun["B"] EXCEPT !.droppedBundles = un]])
          /\ log' = Append(log, [to |-> "A", idx |-> Len(air) + 1,
                                 exit |-> r.exit, pre |-> tun["A"]])
          /\ lastOp' = [NoOp EXCEPT !.op = "nack", !.t = "A", !.arg = un,
                                    !.exit = r.exit, !.pre = tun["A"]]
    /\ calls' = [calls EXCEPT !.inject = @ + 1, !.next["A"] = Len(air) + 2]
    /\ UNCHANGED now
    /\ UNCHANGED idleVars

\* A sends important bundles to B over a link that loses some; B answers
\* with heartbeats.
NextRepair ==
    \/ RPush
    \/ \E t \in Tunnels : RFlush(t)
    \/ \E i \in 1..Len(air) : RDeliver(i)
    \/ RTick

SpecRepair == InitRepair /\ [][NextRepair]_vars

\* A sends important bundles and is handed heartbeats that list ids as
\* unavailable.
NextNack ==
    \/ RPush
    \/ RFlush("A")
    \/ RTick
    \/ \E un \in NackSet : RNack(un)

SpecNack == InitRepair /\ [][NextNack]_vars

\* The ids of the important bundles s holds inflight.
InflightIds(s) == { s.inflightBundles[k].id : k \in 1..Len(s.inflightBundles) }

\* The heartbeat of a peer in state s lists id as received.
ListedReceived(s, id) ==
    \E k \in 1..Len(showReceived(s)) :
        showReceived(s)[k].from <= id /\ id <= showReceived(s)[k].to

\* The inflight bundle at position k of s is still to be sent: the resend
\* cursor has not passed it, or a copy waits in the priority-resend queue.
Scheduled(s, k) ==
    \/ k > s.resendPosition
    \/ \E j \in 1..Len(s.priorityResendQueue) :
          s.priorityResendQueue[j].id = s.inflightBundles[k].id

\* The last step was A parsing a heartbeat that B emitted.
HeartbeatParsed ==
    /\ lastOp.op = "parse"
    /\ lastOp.t = "A"
    /\ lastOp.exit = "done"

HeartbeatOf == air[log[Len(log)].idx].from

\* C17: when the network dropped some of the important bundles a windowed
\* sender transmitted, then after the receiver's heartbeat listed the
\* received ranges the sender has removed exactly those ids from inflight
\* and the missing ones are retransmitted by the flushes that follow.
C17_SackRepair ==
    HeartbeatParsed =>
        /\ InflightIds(tun["A"]) =
              { id \in InflightIds(lastOp.pre) : ~ListedReceived(HeartbeatOf, id) }
        /\ \A k \in 1..Len(tun["A"].inflightBundles) :
              tun["A"].inflightBundles[k].id < HeartbeatOf.lastReceivedNonce
                  => Scheduled(tun["A"], k)

\* The sender removes exactly the listed ids from inflight (this part holds).
SackRemovesListed ==
    HeartbeatParsed =>
        InflightIds(tun["A"]) =
            { id \in InflightIds(lastOp.pre) : ~ListedReceived(HeartbeatOf, id) }

\* B's packet listener hears no message twice.
DeliveredAtMostOnce ==
    \A j, k \in 1..Len(tun["B"].heard) :
        (j # k /\ tun["B"].heard[j].kind = "packet" /\ tun["B"].heard[k].kind = "packet")
            => tun["B"].heard[j].pkt.id # tun["B"].heard[k].pkt.id


\* The inflight bundles of s whose ids the list un names, range by range,
\* as copies marked important.
RECURSIVE ClonesOf(_, _)
ClonesOf(s, un) ==
    IF un = << >> THEN << >>
    ELSE LET hit == SelectSeq(s.inflightBundles, LAMBDA ib : ib.id = Head(un))
         IN [j \in 1..Len(hit) |-> InflightBundle(hit[j].id, hit[j].data, TRUE)]
            \o ClonesOf(s, Tail(un))

\* The last step was a flush at A, awake, with a bundle waiting in the
\* priority-resend queue.
FlushWithQueue ==
    /\ lastOp.op = "flush"
    /\ lastOp.t = "A"
    /\ ~lastOp.pre.isAsleep
    /\ Len(lastOp.pre.priorityResendQueue) > 0

\* Nothing non-important was waiting or due in that flush.
NoNonImportant ==
    /\ Len(lastOp.pre.nonImportantInflightBundles) = 0
    /\ Len(tun["A"].nonImportantInflightBundles) = 0
    /\ tun["A"].lastSentHeartbeat = lastOp.pre.lastSentHeartbeat

\* C18: on receiving unavailable ranges each id in a range that is present
\* in important-inflight is cloned into the priority-resend queue, and the
\* next flush takes from that queue before the resend cursor moves.
C18_SelectiveRepeat ==
    /\ lastOp.op = "nack" =>
          tun["A"].priorityResendQueue =
              lastOp.pre.priorityResendQueue \o ClonesOf(tun["A"], lastOp.arg)
    /\ FlushWithQueue =>
          /\ tun["A"].resendPosition = lastOp.pre.resendPosition
          /\ NoNonImportant =>
                /\ lastOp.arg = Head(lastOp.pre.priorityResendQueue).data
                /\ tun["A"].priorityResendQueue = Tail(lastOp.pre.priorityResendQueue)

\* A flush returned the head of the priority-resend queue while the resend
\* cursor had a bundle to send.
C18_Witness ==
    /\ FlushWithQueue
    /\ NoNonImportant
    /\ lastOp.pre.resendPosition < Len(tun["A"].inflightBundles)
    /\ lastOp.arg = Head(lastOp.pre.priorityResendQueue).data
    /\ Len(lastOp.arg) > 0


(***************************************************************************)
(* Idle sessions: the clock passes aliveTimeout and disconnectTimeout, and  *)
(* the application calls update() and flush().                              *)
(***************************************************************************)
\* Puffer::enableTimeout
Puffer_enableTimeout(s, duration) ==
    [s EXCEPT !.timeoutEnabled = TRUE, !.timeoutDuration = duration]

\* Bounds of the idle runs.
MaxIdlePush == 1
MaxIdleFlush == 3
MaxIdleTick == 2
MaxIdleUpdate == 2

\* The steps of the clock: past aliveTimeout, and past disconnectTimeout.
IdleTicks == { AliveTimeoutDefault + 1000, DisconnectTimeoutDefault + 1000 }

\* The timeout the application gives its Puffer.
IdleTimeoutDuration == 20000

\* Two Tunnels, windowed or not, and two Puffers with a timeout.
InitIdle ==
    /\ \E win \in BOOLEAN :
          tun = [t \in Tunnels |-> Configure(NewTunnel(0), FALSE, win)]
    /\ node = [t \in Tunnels |->
                 [NewNode(0) EXCEPT !.tunnel =
                     Puffer_enableTimeout(@, IdleTimeoutDuration)]]
    /\ now = 0
    /\ air = << >>
    /\ log = << >>
    /\ calls = [push |-> 0, flush |-> 0, tick |-> 0, update |-> 0,
                next |-> [t \in Tunnels |-> 1]]
    /\ lastOp = NoOp
    /\ rail = << >>
    /\ reach = << >>
    /\ wire = << >>
    /\ sent = << >>
    /\ accepted = {}
    /\ delivered = {}
    /\ inOrder = TRUE
    /\ nextIdx = 1
    /\ lastFlush = [outbox |-> << >>, ret |-> << >>, pre |-> NewTunnel(0)]

restVars == << wire, sent, accepted, delivered, inOrder, nextIdx, lastFlush,
              rail, reach >>

\* Tunnel::push at A
IPush ==
    /\ calls.push < MaxIdlePush
    /\ tun' = [tun EXCEPT !["A"].outbox = Append(@, RepairPacket(calls.push + 1))]
    /\ calls' = [calls EXCEPT !.push = @ + 1]
    /\ lastOp' = [NoOp EXCEPT !.op = "push", !.pre = tun["A"]]
    /\ UNCHANGED << now, air, log, node >>
    /\ UNCHANGED restVars

\* Tunnel::flush at t
IFlush(t) ==
    /\ Alive(t)
    /\ calls.flush < MaxIdleFlush
    /\ LET f == flush(tun[t], RepairSizes[1], RepairSizes[2], now)
       IN /\ tun' = [tun EXCEPT ![t] = f.s]
          /\ air' = IF Len(f.ret) > 0
                    THEN Append(air, [src |-> t, data |-> f.ret, from |-> tun[t]])
                    ELSE air
          /\ lastOp' = [NoOp EXCEPT !.op = "flush", !.t = t, !.arg = f.ret,
                                    !.pre = tun[t]]
    /\ calls' = [calls EXCEPT !.flush = @ + 1]
    /\ UNCHANGED << now, log, node >>
    /\ UNCHANGED restVars

\* Tunnel::disconnect at A, with a reason of the application's.
IDisconnect ==
    /\ calls.push < MaxIdlePush
    /\ tun' = [tun EXCEPT !["A"] = disconnect(@, << 0, 66, 121, 101 >>)]
    /\ calls' = [calls EXCEPT !.push = @ + 1]
    /\ lastOp' = [NoOp EXCEPT !.op = "disconnect", !.pre = tun["A"]]
    /\ UNCHANGED << now, air, log, node >>
    /\ UNCHANGED restVars

\* Xi::millis() moves on by d.
ITick(d) ==
    /\ calls.tick < MaxIdleTick
    /\ now' = now + d
    /\ calls' = [calls EXCEPT !.tick = @ + 1]
    /\ lastOp' = [NoOp EXCEPT !.op = "tick"]
    /\ UNCHANGED << tun, air, log, node >>
    /\ UNCHANGED restVars

\* Tunnel::update at t
IUpdate(t) ==
    /\ Alive(t)
    /\ calls.update < MaxIdleUpdate
    /\ tun' = [tun EXCEPT ![t] = update(@, now)]
    /\ calls' = [calls EXCEPT !.update = @ + 1]
    /\ lastOp' = [NoOp EXCEPT !.op = "update", !.t = t, !.pre = tun[t]]
    /\ UNCHANGED << now, air, log, node >>
    /\ UNCHANGED restVars

\* Puffer::update at the Puffer of t
IUpdatePuffer(t) ==
    /\ calls.update < MaxIdleUpdate
    /\ node' = [node EXCEPT ![t].tunnel = Puffer_update(@, now)]
    /\ calls' = [calls EXCEPT !.update = @ + 1]
    /\ lastOp' = [NoOp EXCEPT !.op = "pufferUpdate", !.t = t,
                              !.pre = node[t].tunnel]
    /\ UNCHANGED << now, air, log, tun >>
    /\ UNCHANGED restVars

\* The application at A pushes, lets time pass, and calls update() and
\* flush(); nothing arrives from the peer.
NextIdle ==
    \/ IPush
    \/ IDisconnect
    \/ IFlush("A")
    \/ \E d \in IdleTicks : ITick(d)
    \/ IUpdate("A")
    \/ IUpdatePuffer("A")

SpecIdle == InitIdle /\ [][NextIdle]_vars


\* The disconnect-listener invocations in a heard record.
DisconnectsOf(h) == SelectSeq(h, LAMBDA e : e.kind = "disconnect")

\* The destroy-listener invocations in a heard record.
DestroysOf(h) == SelectSeq(h, LAMBDA e : e.kind = "destroy")

\* update() of a Tunnel was called with the session idle beyond
\* disconnectTimeout and no destruction pending.
TunnelTimedOut ==
    /\ lastOp.op = "update"
    /\ lastOp.pre.disconnectTimeout > 0
    /\ ~lastOp.pre.destroyAfterFlush
    /\ now > lastOp.pre.lastSeen + lastOp.pre.disconnectTimeout

\* update() of a Puffer was called with the session idle beyond its timeout.
PufferTimedOut ==
    /\ lastOp.op = "pufferUpdate"
    /\ lastOp.pre.timeoutEnabled
    /\ now > lastOp.pre.lastSeen + lastOp.pre.timeoutDuration

\* What the claim says of Tunnel::update: the disconnect packet with the
\* reason {0: "Timeout"} is queued, the disconnect listener hears the
\* reason, and the session is marked destroy-after-flush.
TunnelTimeoutDisconnects ==
    TunnelTimedOut =>
        /\ Len(tun[lastOp.t].outbox) = Len(lastOp.pre.outbox) + 1
        /\ tun[lastOp.t].outbox[Len(tun[lastOp.t].outbox)].channel = 0
        /\ tun[lastOp.t].outbox[Len(tun[lastOp.t].outbox)].payload =
              pushVarLong(1000) \o serializeMap(TimeoutReason)
        /\ DisconnectsOf(tun[lastOp.t].heard) =
              Append(DisconnectsOf(lastOp.pre.heard),
                     [kind |-> "disconnect", pkt |-> serializeMap(TimeoutReason)])
        /\ tun[lastOp.t].destroyAfterFlush

\* The same of Puffer::update: a disconnect packet is queued and the
\* disconnect listener hears the reason once.
PufferTimeoutDisconnects ==
    PufferTimedOut =>
        /\ Len(node[lastOp.t].tunnel.outbox) = Len(lastOp.pre.outbox) + 1
        /\ Len(DisconnectsOf(node[lastOp.t].tunnel.heard)) = 1

\* C19: when the session has been idle beyond disconnectTimeout, update()
\* issues a synthetic disconnect with the reason {0: "Timeout"}, delivers
\* it to the disconnect listener and marks the session destroy-after-flush.
C19_TimeoutDisconnects == TunnelTimeoutDisconnects /\ PufferTimeoutDisconnects

\* The important and the non-important inflight lists and the outbox of s
\* are empty.
Drained(s) ==
    /\ Len(s.inflightBundles) = 0
    /\ Len(s.nonImportantInflightBundles) = 0
    /\ Len(s.outbox) = 0

\* The last step was a flush that invoked the destroy listener.
DestroyInvoked ==
    /\ lastOp.op = "flush"
    /\ Len(DestroysOf(tun[lastOp.t].heard)) > Len(DestroysOf(lastOp.pre.heard))

\* The destroy listener is never invoked while outbox or inflight is
\* non-empty, and only when destroy-after-flush was requested.
DestroyOnlyWhenDrained ==
    DestroyInvoked => (lastOp.pre.destroyAfterFlush /\ Drained(lastOp.pre))

\* A flush that finds destroy-after-flush requested and the lists drained
\* invokes the destroy listener.
DrainedFlushDestroys ==
    (lastOp.op = "flush" /\ lastOp.pre.destroyAfterFlush /\ Drained(lastOp.pre))
        => DestroyInvoked

\* C20: when destroy-after-flush was requested by disconnect() or by the
\* timeout, then once outbox and inflight have drained a flush invokes the
\* destroy listener, and it is never invoked while outbox or inflight is
\* non-empty.
C20_DestroyAfterFlush == DestroyOnlyWhenDrained /\ DrainedFlushDestroys

\* disconnect() requests the destruction: once its packet is queued the
\* session is marked destroy-after-flush.
DisconnectRequestsDestroy ==
    \A t \in Tunnels :
        (\E k \in 1..Len(tun[t].outbox) :
            /\ tun[t].outbox[k].channel = 0
            /\ peekVarLong(tun[t].outbox[k].payload, 0).value = 1000)
          => tun[t].destroyAfterFlush

(***************************************************************************)
(* Two Tunnels over a link while the clock passes aliveTimeout: B pushes,   *)
(* A disconnects, both flush, the link delivers.                            *)
(***************************************************************************)
\* Bounds of the link runs.
MaxLinkPush == 1
MaxLinkTick == 1
MaxLinkFlush == 3

\* Two Tunnels, both windowed or both not.
InitLink ==
    /\ \E win \in BOOLEAN :
          tun = [t \in Tunnels |-> Configure(NewTunnel(0), FALSE, win)]
    /\ now = 0
    /\ air = << >>
    /\ log = << >>
    /\ calls = [push |-> 0, flush |-> 0, tick |-> 0, inject |-> 0,
                next |-> [t \in Tunnels |-> 1], lost |-> FALSE]
    /\ lastOp = NoOp
    /\ rail = << >>
    /\ reach = << >>
    /\ wire = << >>
    /\ sent = << >>
    /\ accepted = {}
    /\ delivered = {}
    /\ inOrder = TRUE
    /\ nextIdx = 1
    /\ lastFlush = [outbox |-> << >>, ret |-> << >>, pre |-> NewTunnel(0)]
    /\ node = << >>

\* Tunnel::push at t of an application packet.
LPush(t) ==
    /\ Alive(t)
    /\ calls.push < MaxLinkPush
    /\ tun' = [tun EXCEPT ![t].outbox = Append(@, RepairPacket(calls.push + 1))]
    /\ calls' = [calls EXCEPT !.push = @ + 1]
    /\ lastOp' = [NoOp EXCEPT !.op = "push", !.t = t, !.pre = tun[t]]
    /\ UNCHANGED << now, air, log >>
    /\ UNCHANGED idleVars

\* Tunnel::disconnect at A with the reason {0: "Bye"}, once.
LDisconnect ==
    /\ Alive("A")
    /\ calls.inject < 1
    /\ tun' = [tun EXCEPT !["A"] = disconnect(@, << 0, 66, 121, 101 >>)]
    /\ calls' = [calls EXCEPT !.inject = @ + 1]
    /\ lastOp' = [NoOp EXCEPT !.op = "disconnect", !.pre = tun["A"]]
    /\ UNCHANGED << now, air, log >>
    /\ UNCHANGED idleVars

\* Xi::millis() moves on by more than aliveTimeout.
LTick ==
    /\ calls.tick < MaxLinkTick
    /\ now' = now + AliveTimeoutDefault + 1000
    /\ calls' = [calls EXCEPT !.tick = @ + 1]
    /\ lastOp' = [NoOp EXCEPT !.op = "tick"]
    /\ UNCHANGED << tun, air, log >>
    /\ UNCHANGED idleVars

NextLink ==
    \/ LPush("B")
    \/ LDisconnect
    \/ \E t \in Tunnels : calls.flush < MaxLinkFlush /\ RFlush(t)
    \/ \E i \in 1..Len(air) : RDeliver(i)
    \/ LTick

SpecLink == InitLink /\ [][NextLink]_vars

\* The last step was a parse that dispatched a disconnect control packet:
\* the disconnect listener of the receiver was invoked.
DisconnectReceived ==
    /\ lastOp.op = "parse"
    /\ Len(DisconnectsOf(tun[lastOp.t].heard)) >
          Len(DisconnectsOf(lastOp.pre.heard))

\* The disconnect listener heard the reason map the peer serialized.
ReasonDelivered ==
    DisconnectReceived =>
        DisconnectsOf(tun[lastOp.t].heard) =
            Append(DisconnectsOf(lastOp.pre.heard),
                   [kind |-> "disconnect",
                    pkt |-> serializeMap(<< 0, 66, 121, 101 >>)])

\* The receiver of a disconnect is marked destroy-after-flush.
ReceiverMarkedForDestroy ==
    DisconnectReceived => tun[lastOp.t].destroyAfterFlush

\* C21: on receiving a disconnect control packet the receiver delivers the
\* reason map to the disconnect listener and marks the session
\* destroy-after-flush.
C21_DisconnectReceived == ReasonDelivered /\ ReceiverMarkedForDestroy

\* A flush of a session that is asleep returns nothing and changes nothing.
AsleepFlushEmpty ==
    (lastOp.op = "flush" /\ lastOp.pre.isAsleep) =>
        /\ lastOp.arg = << >>
        /\ tun[lastOp.t] = lastOp.pre

\* Neither push nor disconnect wakes a session, and a parse does.
OnlyParseWakes ==
    /\ (lastOp.op \in {"push", "disconnect"} /\ lastOp.pre.isAsleep)
          => tun[lastOp.t].isAsleep
    /\ lastOp.op = "parse" => ~tun[lastOp.t].isAsleep

\* A flush of a session that is awake and has a packet queued returns a
\* bundle.
AwakeFlushEmits ==
    (lastOp.op = "flush" /\ ~lastOp.pre.isAsleep /\ Len(lastOp.pre.outbox) > 0)
        => Len(lastOp.arg) > 0

\* C22: once a session has been marked asleep, every flush() returns empty
\* until a parse() wakes it; after a parse the session emits again.
C22_AsleepUntilParse == AsleepFlushEmpty /\ OnlyParseWakes /\ AwakeFlushEmits

\* A session that a parse woke from sleep returns a bundle from flush.
C22_Witness ==
    /\ lastOp.op = "flush"
    /\ Len(lastOp.arg) > 0
    /\ \E k \in 1..Len(log) : log[k].to = lastOp.t /\ log[k].pre.isAsleep

\* flush() was called on a session that is asleep.
AsleepFlushSeen == lastOp.op = "flush" /\ lastOp.pre.isAsleep

\* The last step was a parse at B of a bundle whose secure indication, bit 0
\* of the first byte after the nonce, differs from B's isSecure.
SecureBitMismatch ==
    /\ ParsedLast
    /\ lastOp.pre.isWindowed => ~peekVarLong(lastOp.arg, 0).error
    /\ LET at == IF lastOp.pre.isWindowed
                 THEN peekVarLong(lastOp.arg, 0).bytes ELSE 0
       IN /\ at < Len(lastOp.arg)
          /\ (lastOp.arg[at + 1] % 2 = 1) # lastOp.pre.isSecure

\* C23: a received bundle whose wire secure indication does not match the
\* local isSecure flag is dropped before any AEAD attempt, with no
\* dispatch and no window update.
C23_SecureMismatchDropped ==
    SecureBitMismatch => (HeardByLast = << >> /\ WindowUntouched)

\* The same of the Puffer of a Node: a genuine bundle whose secure bit
\* differs from the receiver's isSecure leaves parse through the replay
\* check or the secure-bit check, and no packet reaches the listener.
PufferMismatchDropped ==
    \A k \in 1..Len(log) :
        (/\ log[k].genuine
         /\ WireSecure(log[k].pre.tunnel, air[log[k].idx].data)
               # log[k].pre.tunnel.isSecure)
          => (log[k].exit \in {"replay", "securebit"} /\ log[k].inbox = << >>)

\* A Node was handed a genuine bundle whose secure bit differs from its
\* isSecure.
PufferMismatchSeen ==
    \E k \in 1..Len(log) :
        /\ log[k].genuine
        /\ log[k].exit = "securebit"
        /\ WireSecure(log[k].pre.tunnel, air[log[k].idx].data)
              # log[k].pre.tunnel.isSecure

\* The packet listener of a Tunnel hears no packet of channel 0, and what
\* it hears on another channel is a packet the peer's application pushed,
\* payload and channel as pushed.
TunnelControlNotSurfaced ==
    \A t \in Tunnels : \A k \in 1..Len(tun[t].heard) :
        tun[t].heard[k].kind = "packet" =>
            /\ tun[t].heard[k].pkt.channel # 0
            /\ \E m \in 1..MaxRepairPush :
                  /\ tun[t].heard[k].pkt.payload = RepairPacket(m).payload
                  /\ tun[t].heard[k].pkt.channel = RepairPacket(m).channel

\* A Tunnel parsed a heartbeat, a packet of channel 0, and an application
\* packet.
TunnelControlSeen ==
    /\ HeartbeatParsed
    /\ \E k \in 1..Len(tun["B"].heard) : tun["B"].heard[k].kind = "packet"

\* C24: a received packet on channel 0 is handled by the control command
\* table and is never delivered to the application packet handler, while a
\* packet on any other channel is delivered to it unchanged.  Here for the
\* Puffer of a Node: its packet listener hears no packet of channel 0.
C24_ControlChannelKept ==
    \A t \in Tunnels : \A k \in 1..Len(node[t].tunnel.heard) :
        node[t].tunnel.heard[k].kind = "packet" =>
            node[t].tunnel.heard[k].pkt.channel # 0

(***************************************************************************)
(* Railway (include/Rho/Railway.hpp): channel multiplexing with a per-      *)
(* channel key, a sliding replay bitmap and a metadata table.  A table is   *)
(* the sequence of its entries << key, value >> in iteration order.  The    *)
(* two time stamps of a channel feed only cleanOldRailwayChannels and are   *)
(* left out.                                                                *)
(***************************************************************************)
RAILWAY_SECURE == 1
RAILWAY_HAS_META == 4
WindowBitmapSizeDefault == 64
RailwayTagLen == 8

\* Railway(): no channel, an empty id pool, the default window.
NewRailway == [channels |-> << >>, availableToGenerate |-> << >>,
               windowBitmapSize |-> WindowBitmapSizeDefault]

\* setWindowBitmap(size): sizes that are not a positive multiple of 8 are
\* ignored.
setWindowBitmap(rw, size) ==
    IF size % 8 # 0 \/ size <= 0 THEN rw ELSE [rw EXCEPT !.windowBitmapSize = size]

\* The RailwayChannel that get() constructs.
NewRailwayChannel(key, size) ==
    [key |-> key, bitmap |-> zeros(size \div 8), slidePos |-> 0,
     lastSentNonce |-> 0, lastReceivedMeta |-> << >>, updateMeta |-> FALSE,
     meta |-> << >>]

\* channels.has(channelId)
Railway_has(rw, channelId) == channelId \in DOMAIN rw.channels

\* get(channelId, key): creates the channel when it is unknown; a non-empty
\* key replaces the key of a known channel.
Railway_get(rw, channelId, key) ==
    IF ~Railway_has(rw, channelId)
    THEN [rw EXCEPT !.channels =
             [c \in DOMAIN rw.channels \cup {channelId} |->
                 IF c = channelId THEN NewRailwayChannel(key, rw.windowBitmapSize)
                 ELSE rw.channels[c]]]
    ELSE IF KeySize(key) > 0 THEN [rw EXCEPT !.channels[channelId].key = key]
    ELSE rw

\* The ids generateNewAvailableId can settle on: not a channel, not pooled.
RailwayFreeIds(rw, ids) ==
    { id \in ids : /\ ~Railway_has(rw, id)
                   /\ \A k \in 1..Len(rw.availableToGenerate) :
                         rw.availableToGenerate[k] # id }

\* generateNewAvailableId(): newId is the draw of Xi::random the loop stops at.
generateNewAvailableId(rw, newId) ==
    [rw EXCEPT !.availableToGenerate = Append(@, newId)]

\* generate(): refills the pool when it is empty, then pops its last entry.
Railway_generate(rw, newId) ==
    LET filled == IF Len(rw.availableToGenerate) = 0
                  THEN generateNewAvailableId(rw, newId) ELSE rw
        n == Len(filled.availableToGenerate)
    IN [rw |-> [filled EXCEPT !.availableToGenerate = SubSeq(@, 1, n - 1)],
        id |-> filled.availableToGenerate[n],
        pooled |-> filled.availableToGenerate]

\* The serialisation loop of build: Key(VarLong) + length(VarLong) + value.
RECURSIVE serializeMeta(_)
serializeMeta(meta) ==
    IF meta = << >> THEN << >>
    ELSE pushVarLong(Head(meta)[1]) \o pushVarLong(Len(Head(meta)[2]))
         \o Head(meta)[2] \o serializeMeta(Tail(meta))

\* String::constantTimeEquals(b) with `length' left at its default 0: the
\* parameter hides the member of the same name, so aLen is 0 and every byte
\* of the left-hand side reads as 0.
constantTimeEqualsDefault(a, b) ==
    LET aLen == 0
    IN /\ aLen = Len(b)
       /\ \A i \in 1..Len(b) : (IF i <= aLen THEN a[i] ELSE 0) = b[i]

\* The three bytes of a channel id, most significant first.
channelIdBuf(channel) ==
    << (channel \div 65536) % 256, (channel \div 256) % 256, channel % 256 >>

\* build(pkt): the wire form of one packet, and the channel after it.
Railway_build(rw0, pkt) ==
    LET rw        == Railway_get(rw0, pkt.channel, 0)
        channel   == rw.channels[pkt.channel]
        isSecure  == KeySize(channel.key) > 0
        metaBytes == serializeMeta(channel.meta)
        withMeta  == channel.updateMeta
                     \/ constantTimeEqualsDefault(metaBytes, channel.lastReceivedMeta)
        content   == (IF withMeta THEN pushVarLong(Len(metaBytes)) \o metaBytes
                      ELSE << >>) \o pkt.payload
        header    == (IF isSecure THEN RAILWAY_SECURE ELSE 0)
                     + (IF withMeta THEN RAILWAY_HAS_META ELSE 0)
        ad        == << header >> \o channelIdBuf(pkt.channel)
        nonce     == channel.lastSentNonce + 1
        sealed    == aeadSeal(channel.key, nonce, content, ad, RailwayTagLen)
    IN [rw  |-> [rw EXCEPT !.channels[pkt.channel] =
                    [@ EXCEPT !.updateMeta = IF withMeta THEN FALSE ELSE @,
                              !.lastSentNonce = IF isSecure THEN nonce ELSE @]],
        out |-> IF isSecure
                THEN ad \o pushVarLong(nonce) \o sealed.tag \o sealed.text
                ELSE ad \o content,
        withMeta |-> withMeta,
        metaBytes |-> metaBytes]

\* Map::put on a table: the value of a known key is replaced, a new key is
\* added.
metaPut(meta, key, value) ==
    IF \E k \in 1..Len(meta) : meta[k][1] = key
    THEN [k \in 1..Len(meta) |-> IF meta[k][1] = key THEN << key, value >> ELSE meta[k]]
    ELSE Append(meta, << key, value >>)

\* The entry loop of parse over the metadata blob; it stops at the first
\* entry that does not fit.
RECURSIVE parseMetaBlob(_, _, _)
parseMetaBlob(metaBlob, metaCursor, meta) ==
    IF metaCursor >= Len(metaBlob) THEN meta
    ELSE LET keyRes == peekVarLong(metaBlob, metaCursor)
         IN IF keyRes.error THEN meta
            ELSE LET c1 == metaCursor + keyRes.bytes
                     valLenRes == peekVarLong(metaBlob, c1)
                 IN IF valLenRes.error THEN meta
                    ELSE LET c2 == c1 + valLenRes.bytes
                             vLen == valLenRes.value
                         IN IF c2 + vLen > Len(metaBlob) THEN meta
                            ELSE parseMetaBlob(metaBlob, c2 + vLen,
                                     metaPut(meta, keyRes.value,
                                             substring(metaBlob, c2, c2 + vLen)))

\* A replay test that looks at the low edge only and never at the bitmap.
Railway_replayCheckEdgeOnly(channel, nonce, windowBitmapSize) ==
    IF nonce <= channel.slidePos /\ channel.slidePos - nonce >= windowBitmapSize
    THEN "old" ELSE "new"

\* The replay test of parse: "old" when the nonce lies at or below the low
\* edge of the window, "replay" when its bit is set, "new" otherwise.
Railway_replayCheck(channel, nonce, windowBitmapSize) ==
    IF nonce <= channel.slidePos
    THEN LET diff == channel.slidePos - nonce
         IN IF diff >= windowBitmapSize THEN "old"
            ELSE IF Bit(channel.bitmap[(diff \div 8) + 1], diff % 8) = 1 THEN "replay"
            ELSE "new"
    ELSE "new"

\* The bitmap moved up by `shift' positions: whole bytes first, then bits,
\* each byte taking the top bits of the byte below it.
Railway_shiftBitmap(bitmap, shift, windowBitmapSize) ==
    IF shift >= windowBitmapSize THEN zeros(Len(bitmap))
    ELSE LET byteShift == shift \div 8
             bitShift  == shift % 8
             moved == [i \in 1..Len(bitmap) |->
                          IF i - 1 >= byteShift THEN bitmap[i - byteShift] ELSE 0]
         IN IF bitShift = 0 THEN moved
            ELSE [i \in 1..Len(bitmap) |->
                     ((moved[i] * (2 ^ bitShift)) % 256)
                     + (IF i > 1 THEN moved[i - 1] \div (2 ^ (8 - bitShift)) ELSE 0)]

\* "Update Sliding Window": the head moves to a larger nonce and the bit of
\* the nonce is set.
Railway_updateWindow(channel, nonce, windowBitmapSize) ==
    LET slid == IF nonce > channel.slidePos
                THEN [channel EXCEPT
                         !.bitmap = Railway_shiftBitmap(@, nonce - channel.slidePos,
                                                        windowBitmapSize),
                         !.slidePos = nonce]
                ELSE channel
        newDiff == slid.slidePos - nonce
        byteIndex == (newDiff \div 8) + 1
        bitIndex == newDiff % 8
    IN [slid EXCEPT !.bitmap[byteIndex] =
           IF Bit(@, bitIndex) = 1 THEN @ ELSE @ + 2 ^ bitIndex]

\* The tail of parse, after the content is in the clear: the metadata
\* container when the header announces one, then the payload.
Railway_parseContent(rw, channelId, updatesMeta, decryptedData) ==
    LET metaLenRes == peekVarLong(decryptedData, 0)
        fits == /\ updatesMeta
                /\ Len(decryptedData) > 0
                /\ ~metaLenRes.error
                /\ metaLenRes.bytes + metaLenRes.value <= Len(decryptedData)
        metaBlob == substring(decryptedData, metaLenRes.bytes,
                              metaLenRes.bytes + metaLenRes.value)
        dataCursor == IF fits THEN metaLenRes.bytes + metaLenRes.value ELSE 0
    IN [rw  |-> IF fits
                THEN [rw EXCEPT !.channels[channelId] =
                         [@ EXCEPT !.lastReceivedMeta = metaBlob,
                                   !.meta = parseMetaBlob(metaBlob, 0, << >>)]]
                ELSE rw,
        pkt |-> [channel |-> channelId,
                 payload |-> IF dataCursor < Len(decryptedData)
                             THEN substring(decryptedData, dataCursor, Len(decryptedData))
                             ELSE << >>],
        exit |-> "done"]

\* The result of parse on every early return.
RailwayDropped(rw, exit) ==
    [rw |-> rw, pkt |-> [channel |-> 0, payload |-> << >>], exit |-> exit]

\* The secure branch of parse: nonce, replay test, AEAD, window update.
Railway_parseSecure(rw, channelId, updatesMeta, buf) ==
    LET channel  == rw.channels[channelId]
        nonceRes == peekVarLong(buf, 4)
        nonce    == nonceRes.value
        cursor   == 4 + nonceRes.bytes
    IN IF nonceRes.error THEN RailwayDropped(rw, "nonce")
       ELSE IF cursor + RailwayTagLen > Len(buf) THEN RailwayDropped(rw, "tag")
       ELSE IF Railway_replayCheck(channel, nonce, rw.windowBitmapSize) # "new"
       THEN RailwayDropped(rw, Railway_replayCheck(channel, nonce, rw.windowBitmapSize))
       ELSE ByValue(LAMBDA opened :
                IF ~opened.ok THEN RailwayDropped(rw, "aead")
                ELSE Railway_parseContent(
                         [rw EXCEPT !.channels[channelId] =
                             Railway_updateWindow(@, nonce, rw.windowBitmapSize)],
                         channelId, updatesMeta, opened.text),
                aeadOpen(channel.key, nonce,
                         substring(buf, cursor + RailwayTagLen, Len(buf)),
                         substring(buf, 0, 4),
                         substring(buf, cursor, cursor + RailwayTagLen),
                         RailwayTagLen))

\* parse(buf): newId is the draw generateNewAvailableId settles on when the
\* channel id of the packet is found in the pool.
Railway_parse(rw0, buf, newId) ==
    IF Len(buf) < 4 THEN RailwayDropped(rw0, "short")
    ELSE LET header     == buf[1]
             channelId  == buf[2] * 65536 + buf[3] * 256 + buf[4]
             pool       == rw0.availableToGenerate
             pooled     == \E k \in 1..Len(pool) : pool[k] = channelId
             availIdx   == CHOOSE k \in 1..Len(pool) :
                              /\ pool[k] = channelId
                              /\ \A j \in 1..(k - 1) : pool[j] # channelId
             rw1        == IF pooled
                           THEN generateNewAvailableId(
                                    [rw0 EXCEPT !.availableToGenerate =
                                        SubSeq(pool, 1, availIdx - 1)
                                        \o SubSeq(pool, availIdx + 1, Len(pool))],
                                    newId)
                           ELSE rw0
             isSecure    == Bit(header, 0) = 1
             updatesMeta == Bit(header, 2) = 1
             exists      == Railway_has(rw1, channelId)
         IN IF isSecure /\ (~exists \/ KeySize(rw1.channels[channelId].key) = 0)
            THEN RailwayDropped(rw1, "nokey")
            ELSE IF isSecure
            THEN Railway_parseSecure(rw1, channelId, updatesMeta, buf)
            ELSE Railway_parseContent(Railway_get(rw1, channelId, 0), channelId,
                                      updatesMeta, substring(buf, 4, Len(buf)))

(***************************************************************************)
(* A Railway at A sending channel packets in the clear to a Railway at B.   *)
(* The application at A writes the metadata table of a channel through the  *)
(* pointer get() returns and asks for channel ids; the network delivers     *)
(* and repeats A's packets at B and hands A packets that B never built.     *)
(***************************************************************************)
MaxRailId == 2
MaxRailBuild == 3
MaxRailParse == 1
MaxRailMeta == 1
MaxRailGenerate == 1
MaxRailForge == 1

\* The channel ids in use, and the range Xi::random draws from.
RailIds == 1..MaxRailId

\* The tables the application installs.
MetaTables == { << >>, << << 1, << 7 >> >> >>, << << 1, << 9 >> >> >> }

\* Packets from the network: for each channel id a secured packet (nonce 1,
\* a tag of zeros) and a packet in the clear that carries the table
\* {1: <<7>>} before its payload; and one packet that is too short.
ForgedRail ==
    { << RAILWAY_SECURE >> \o channelIdBuf(c) \o << 1 >> \o zeros(RailwayTagLen) :
        c \in RailIds }
    \cup { << RAILWAY_HAS_META >> \o channelIdBuf(c) \o << 3, 1, 1, 7, 42 >> :
        c \in RailIds }
    \cup { << 0, 0, 1 >> }

railIdle == << tun, wire, now, sent, accepted, delivered, inOrder, nextIdx,
               lastFlush, node, reach >>

InitRail ==
    /\ rail = [t \in Tunnels |-> NewRailway]
    /\ air = << >>
    /\ log = << >>
    /\ calls = [build |-> 0, parse |-> 0, meta |-> 0, generate |-> 0, forge |-> 0]
    /\ lastOp = NoOp
    /\ reach = << >>
    /\ tun = << >>
    /\ now = 0
    /\ wire = << >>
    /\ sent = << >>
    /\ accepted = {}
    /\ delivered = {}
    /\ inOrder = TRUE
    /\ nextIdx = 1
    /\ lastFlush = << >>
    /\ node = << >>

\* The shape of a log entry of this run.
RailEntry == [op |-> "none", channel |-> 0, withMeta |-> FALSE, metaBytes |-> << >>,
              asked |-> FALSE, buf |-> << >>, exit |-> "done", id |-> 0,
              poolBefore |-> 0, poolAfter |-> 0]

\* build({c, payload}) at A; the packet goes to B.
RailBuild(c) ==
    /\ calls.build < MaxRailBuild
    /\ \E r \in { Railway_build(rail["A"], [channel |-> c, payload |-> << 42 >>]) } :
          /\ rail' = [rail EXCEPT !["A"] = r.rw]
          /\ air' = Append(air, r.out)
          /\ log' = Append(log, [RailEntry EXCEPT
                                 !.op = "build", !.channel = c,
                                 !.withMeta = r.withMeta, !.metaBytes = r.metaBytes,
                                 !.asked = Railway_has(rail["A"], c)
                                           /\ rail["A"].channels[c].updateMeta,
                                 !.buf = r.out])
    /\ calls' = [calls EXCEPT !.build = @ + 1]
    /\ lastOp' = [NoOp EXCEPT !.op = "build"]
    /\ UNCHANGED railIdle

\* The application at A replaces the table of channel c and, when `ask' is
\* set, requests its transmission.
RailSetMeta(c, m, ask) ==
    /\ calls.meta < MaxRailMeta
    /\ rail' = [rail EXCEPT !["A"] =
                   [Railway_get(@, c, 0) EXCEPT
                       !.channels[c].meta = m,
                       !.channels[c].updateMeta = IF ask THEN TRUE ELSE @]]
    /\ calls' = [calls EXCEPT !.meta = @ + 1]
    /\ lastOp' = [NoOp EXCEPT !.op = "meta"]
    /\ UNCHANGED << air, log >>
    /\ UNCHANGED railIdle

\* The channel id a buffer carries on the wire, 0 when it has none.
WireChannel(buf) ==
    IF Len(buf) < 4 THEN 0 ELSE buf[2] * 65536 + buf[3] * 256 + buf[4]

\* The draws the refill inside parse can settle on: the pool has lost the
\* entry of the packet's channel id by then, the channel does not exist yet.
\* 0 stands for "no draw" when the id is not pooled.
RailwayDraws(rw, buf, ids) ==
    IF \E k \in 1..Len(rw.availableToGenerate) :
           rw.availableToGenerate[k] = WireChannel(buf)
    THEN { id \in ids : /\ ~Railway_has(rw, id)
                        /\ \/ id = WireChannel(buf)
                           \/ \A k \in 1..Len(rw.availableToGenerate) :
                                 rw.availableToGenerate[k] # id }
    ELSE {0}

\* The network hands packet i of A to B; it may do so again.
RailParse(i) ==
    /\ calls.parse < MaxRailParse
    /\ \E newId \in RailwayDraws(rail["B"], air[i], RailIds) :
        \E r \in { Railway_parse(rail["B"], air[i], newId) } :
          /\ rail' = [rail EXCEPT !["B"] = r.rw]
          /\ lastOp' = [NoOp EXCEPT !.op = "parse", !.t = "B", !.exit = r.exit]
    /\ calls' = [calls EXCEPT !.parse = @ + 1]
    /\ UNCHANGED << air, log >>
    /\ UNCHANGED railIdle

\* The network hands A a packet that B never built.
RailForge(buf) ==
    /\ calls.forge < MaxRailForge
    /\ \E newId \in RailwayDraws(rail["A"], buf, RailIds) :
        \E r \in { Railway_parse(rail["A"], buf, newId) } :
          /\ rail' = [rail EXCEPT !["A"] = r.rw]
          /\ log' = Append(log, [RailEntry EXCEPT
                                 !.op = "parse", !.channel = WireChannel(buf),
                                 !.buf = buf, !.exit = r.exit,
                                 !.poolBefore = Len(rail["A"].availableToGenerate),
                                 !.poolAfter = Len(r.rw.availableToGenerate)])
          /\ lastOp' = [NoOp EXCEPT !.op = "parse", !.exit = r.exit]
    /\ calls' = [calls EXCEPT !.forge = @ + 1]
    /\ UNCHANGED air
    /\ UNCHANGED railIdle

\* generate() at A.
RailGenerate ==
    /\ calls.generate < MaxRailGenerate
    /\ \E newId \in RailwayFreeIds(rail["A"], RailIds) :
         \E r \in { Railway_generate(rail["A"], newId) } :
          /\ rail' = [rail EXCEPT !["A"] = r.rw]
          /\ log' = Append(log, [RailEntry EXCEPT
                                 !.op = "generate", !.buf = r.pooled, !.id = r.id])
    /\ calls' = [calls EXCEPT !.generate = @ + 1]
    /\ lastOp' = [NoOp EXCEPT !.op = "generate"]
    /\ UNCHANGED air
    /\ UNCHANGED railIdle

NextRail ==
    \/ \E c \in RailIds : RailBuild(c)
    \/ \E c \in RailIds, m \in MetaTables, ask \in BOOLEAN : RailSetMeta(c, m, ask)
    \/ \E i \in 1..Len(air) : RailParse(i)
    \/ \E buf \in ForgedRail : RailForge(buf)
    \/ RailGenerate

SpecRail == InitRail /\ [][NextRail]_vars

(***************************************************************************)
(* C25                                                                      *)
(***************************************************************************)
\* The builds before entry k on the same channel that carried metadata.
MetaBuildsBefore(k) ==
    { j \in 1..(k - 1) : /\ log[j].op = "build"
                         /\ log[j].channel = log[k].channel
                         /\ log[j].withMeta }

\* The serialisation the last such build transmitted.
LastTransmittedMeta(k) ==
    log[CHOOSE j \in MetaBuildsBefore(k) : \A i \in MetaBuildsBefore(k) : i <= j].metaBytes

\* C25: metadata is transmitted as a diff.  Once a channel has transmitted
\* its table, a later build on it (with no transmission asked for) carries
\* the has-meta flag and the serialised table exactly when the serialisation
\* differs from the one last transmitted; builds with an unchanged table
\* carry no metadata.
C25_MetaSentAsDiff ==
    \A k \in 1..Len(log) :
        (log[k].op = "build" /\ ~log[k].asked /\ MetaBuildsBefore(k) # {}) =>
            /\ log[k].withMeta <=> (log[k].metaBytes # LastTransmittedMeta(k))
            /\ log[k].withMeta <=> Bit(log[k].buf[1], 2) = 1

\* The has-meta flag of a built packet tells whether build included the
\* table, and the table follows the channel id, behind its length.
MetaFlagTellsContent ==
    \A k \in 1..Len(log) :
        log[k].op = "build" =>
            /\ log[k].withMeta <=> Bit(log[k].buf[1], 2) = 1
            /\ log[k].withMeta =>
                 SubSeq(log[k].buf, 5, 5 + Len(log[k].metaBytes))
                     = pushVarLong(Len(log[k].metaBytes)) \o log[k].metaBytes

\* What build does: the table is included when a transmission was asked for
\* or when nothing has been received as metadata on the channel so far.
MetaSentWhileNothingReceived ==
    \A k \in 1..Len(log) :
        (log[k].op = "build" /\ ~log[k].asked) =>
            (log[k].withMeta <=>
                ~\E j \in 1..(k - 1) : /\ log[j].op = "parse"
                                       /\ log[j].channel = log[k].channel
                                       /\ log[j].exit = "done"
                                       /\ Bit(log[j].buf[1], 2) = 1)

\* A changed table that is not transmitted: a build without metadata whose
\* serialisation differs from the one last transmitted.
ChangedMetaNotSent ==
    \E k \in 1..Len(log) :
        /\ log[k].op = "build" /\ ~log[k].asked /\ MetaBuildsBefore(k) # {}
        /\ ~log[k].withMeta
        /\ log[k].metaBytes # LastTransmittedMeta(k)

\* An unchanged table that is transmitted again.
UnchangedMetaSentAgain ==
    \E k \in 1..Len(log) :
        /\ log[k].op = "build" /\ ~log[k].asked /\ MetaBuildsBefore(k) # {}
        /\ log[k].withMeta
        /\ log[k].metaBytes = LastTransmittedMeta(k)

(***************************************************************************)
(* C26                                                                      *)
(***************************************************************************)
\* The channel ids A has seen on the wire before log entry k.
ObservedBefore(k) ==
    { log[j].channel : j \in { i \in 1..(k - 1) : log[i].op = "parse" /\ log[i].channel # 0 } }

\* C26: collision avoidance.  No id that was observed on the wire is ever in
\* the id pool (the pool as generate() fills it before it pops an id
\* included), and a parse leaves the size of the pool as it was.
C26_PoolAvoidsObservedIds ==
    /\ \A k \in 1..Len(log) :
          log[k].op = "generate" =>
              \A p \in 1..Len(log[k].buf) : log[k].buf[p] \notin ObservedBefore(k)
    /\ \A t \in Tunnels :
          \A p \in 1..Len(rail[t].availableToGenerate) :
              rail[t].availableToGenerate[p] \notin ObservedBefore(Len(log) + 1)
    /\ \A k \in 1..Len(log) :
          log[k].op = "parse" => log[k].poolAfter = log[k].poolBefore

\* Between calls the pool is empty: generate() pops the id its refill has
\* just pushed, and nothing else fills the pool.
PoolEmptyBetweenCalls ==
    \A t \in Tunnels : rail[t].availableToGenerate = << >>

\* generate() avoids the ids of the channels that exist.
GenerateAvoidsChannels ==
    \A k \in 1..Len(log) :
        log[k].op = "generate" =>
            ~\E j \in 1..(k - 1) : /\ log[j].op \in {"build", "parse"}
                                   /\ log[j].exit = "done"
                                   /\ log[j].channel = log[k].id

\* generate() hands out an id that a dropped packet carried.
ObservedIdGenerated ==
    \E k \in 1..Len(log) :
        /\ log[k].op = "generate"
        /\ log[k].id \in ObservedBefore(k)

(***************************************************************************)
(* A secured channel: A and B hold channel 1 with the same key, B with a    *)
(* window of 8 or 16 positions (setWindowBitmap).  A builds packets; the    *)
(* network hands B any of them, any number of times and in any order, and   *)
(* packets it altered.                                                      *)
(***************************************************************************)
MaxWindowBuild == 10
MaxWindowParse == 3
MaxWindowForge == 1

WindowSizes == {8, 16}

\* The key both ends gave get() for channel 1.
WindowKey == FreshSecret("A")

\* What the network makes of a built packet: "nonce" replaces the nonce by
\* the next one A has not used yet, "zero" replaces it by 0, "text" flips
\* the lowest bit of the last byte.
Altered(buf, kind, unused) ==
    IF kind = "text"
    THEN [i \in 1..Len(buf) |-> IF i = Len(buf) THEN XorByte(buf[i], 1) ELSE buf[i]]
    ELSE LET nonceRes == peekVarLong(buf, 4)
         IN SubSeq(buf, 1, 4)
            \o pushVarLong(IF kind = "nonce" THEN unused ELSE 0)
            \o SubSeq(buf, 5 + nonceRes.bytes, Len(buf))

InitWindow ==
    /\ \E size \in WindowSizes :
          rail = [t \in Tunnels |->
                     Railway_get(setWindowBitmap(NewRailway, size), 1, WindowKey)]
    /\ air = << >>
    /\ log = << >>
    /\ calls = [build |-> 0, parse |-> 0, forge |-> 0]
    /\ lastOp = NoOp
    /\ delivered = {}
    /\ reach = << >>
    /\ tun = << >>
    /\ now = 0
    /\ wire = << >>
    /\ sent = << >>
    /\ accepted = {}
    /\ inOrder = TRUE
    /\ nextIdx = 1
    /\ lastFlush = << >>
    /\ node = << >>

windowIdle == << tun, wire, now, sent, accepted, inOrder, nextIdx, lastFlush,
                 node, reach, log >>

\* build({1, payload}) at A.
WindowBuild ==
    /\ calls.build < MaxWindowBuild
    /\ \E r \in { Railway_build(rail["A"], [channel |-> 1, payload |-> << 42 >>]) } :
          /\ rail' = [rail EXCEPT !["A"] = r.rw]
          /\ air' = Append(air, r.out)
    /\ calls' = [calls EXCEPT !.build = @ + 1]
    /\ lastOp' = [NoOp EXCEPT !.op = "build"]
    /\ UNCHANGED delivered
    /\ UNCHANGED windowIdle

\* parse(buf) at B.  The record of the call: the channel before it, the
\* nonce on the wire, whether a packet with that nonce was delivered before,
\* whether the network altered the packet, and how parse left.
WindowReceive(buf, altered) ==
    \E r \in { Railway_parse(rail["B"], buf, 0) } :
        /\ rail' = [rail EXCEPT !["B"] = r.rw]
        /\ delivered' = IF r.exit = "done"
                        THEN delivered \cup { peekVarLong(buf, 4).value }
                        ELSE delivered
        /\ lastOp' = [NoOp EXCEPT !.op = "parse", !.t = "B", !.exit = r.exit,
                                  !.pre = rail["B"].channels[1],
                                  !.bID = peekVarLong(buf, 4).value,
                                  !.seen = peekVarLong(buf, 4).value \in delivered,
                                  !.old = altered,
                                  !.arg = r.pkt.payload]

\* The network hands B packet i.
WindowParse(i) ==
    /\ calls.parse < MaxWindowParse
    /\ WindowReceive(air[i], FALSE)
    /\ calls' = [calls EXCEPT !.parse = @ + 1]
    /\ UNCHANGED air
    /\ UNCHANGED windowIdle

\* The network hands B an altered copy of the packet A built last.
WindowForge(kind) ==
    /\ calls.forge < MaxWindowForge
    /\ Len(air) > 0
    /\ WindowReceive(Altered(air[Len(air)], kind, Len(air) + 1), TRUE)
    /\ calls' = [calls EXCEPT !.forge = @ + 1]
    /\ UNCHANGED air
    /\ UNCHANGED windowIdle

NextWindow ==
    \/ WindowBuild
    \/ \E i \in 1..Len(air) : WindowParse(i)
    \/ \E kind \in {"nonce", "zero", "text"} : WindowForge(kind)

SpecWindow == InitWindow /\ [][NextWindow]_vars

(***************************************************************************)
(* C27                                                                      *)
(***************************************************************************)
\* The window of B's channel.
WindowOf(ch) == << ch.bitmap, ch.slidePos >>

\* The nonce of the last parse lies at or below the low edge of the window.
BelowLowEdge ==
    /\ lastOp.bID <= lastOp.pre.slidePos
    /\ lastOp.pre.slidePos - lastOp.bID >= rail["B"].windowBitmapSize

\* C27: on a secured channel parse delivers a packet of a given nonce at
\* most once, rejects a nonce at or below the low edge of the window, never
\* delivers a packet the network altered, and leaves the bitmap and the head
\* position as they were whenever it does not deliver (so they move only
\* after the tag verified).
C27_SlidingBitmap ==
    lastOp.op = "parse" =>
        /\ lastOp.exit = "done" => ~lastOp.seen
        /\ BelowLowEdge => lastOp.exit = "old"
        /\ lastOp.old => lastOp.exit # "done"
        /\ lastOp.exit # "done" =>
              WindowOf(rail["B"].channels[1]) = WindowOf(lastOp.pre)
        /\ lastOp.exit = "done" =>
              /\ rail["B"].channels[1].slidePos
                    = IF lastOp.bID > lastOp.pre.slidePos THEN lastOp.bID
                      ELSE lastOp.pre.slidePos
              /\ lastOp.arg = << 42 >>

\* The bits of the window name the delivered nonces: position d of the
\* bitmap is set exactly when nonce slidePos - d was delivered.
BitmapNamesDelivered ==
    LET ch == rail["B"].channels[1]
    IN \A d \in 0..(rail["B"].windowBitmapSize - 1) :
          (Bit(ch.bitmap[(d \div 8) + 1], d % 8) = 1)
              <=> (ch.slidePos - d \in delivered)

\* A packet that was delivered is handed to B again and rejected as a replay.
C27_Witness ==
    /\ lastOp.op = "parse" /\ lastOp.exit = "replay" /\ lastOp.seen /\ ~lastOp.old
    /\ Cardinality(delivered) > 1

\* A packet below the low edge is rejected.
TooOldSeen ==
    lastOp.op = "parse" /\ lastOp.exit = "old" /\ ~lastOp.old /\ ~lastOp.seen

\* An altered packet with a nonce above the head fails the tag.
ForgedAheadSeen ==
    /\ lastOp.op = "parse" /\ lastOp.exit = "aead"
    /\ lastOp.bID > lastOp.pre.slidePos /\ lastOp.pre.slidePos > 0

\* A packet inside the window, behind the head, is delivered late.
LateDeliverySeen ==
    /\ lastOp.op = "parse" /\ lastOp.exit = "done"
    /\ lastOp.bID < lastOp.pre.slidePos

\* The head moved by a whole byte and some bits over a bitmap with a bit set.
ByteShiftSeen ==
    /\ lastOp.op = "parse" /\ lastOp.exit = "done"
    /\ lastOp.pre.slidePos > 0
    /\ lastOp.bID - lastOp.pre.slidePos > 8
    /\ lastOp.bID - lastOp.pre.slidePos < rail["B"].windowBitmapSize

(***************************************************************************)
(* Hostname (include/Xi/Path.hpp) and the Reach loop (include/Rho/          *)
(* Reach.hpp).  A string is the sequence of its character codes, a          *)
(* Hostname the sequence of its labels.                                     *)
(***************************************************************************)
\* Hostname::strIsNumeric: non-empty and digits only.
strIsNumeric(s) ==
    /\ s # << >>
    /\ \A i \in 1..Len(s) : s[i] >= 48 /\ s[i] <= 57

\* An includesNames that looks at the first label only.
includesNamesFirstOnly(hn) == Len(hn) > 0 /\ ~strIsNumeric(hn[1])

\* Hostname::includesNames: some label is not numeric.
includesNames(hn) == \E i \in 1..Len(hn) : ~strIsNumeric(hn[i])

\* Hostname::beforeNamed: the labels in front of the first name.
beforeNamed(hn) ==
    SubSeq(hn, 1, Cardinality({ i \in 1..Len(hn) :
                                   \A j \in 1..i : strIsNumeric(hn[j]) }))

\* String::find(needle, start) for a needle of one character: the offset of
\* its first occurrence at or after start, -1 when there is none.
findChar(s, c, start) ==
    IF \E i \in (start + 1)..Len(s) : s[i] = c
    THEN (CHOOSE i \in (start + 1)..Len(s) :
              s[i] = c /\ \A j \in (start + 1)..(i - 1) : s[j] # c) - 1
    ELSE -1

\* String::find(needle): 0-based offset of the first occurrence; -1 when the
\* needle is empty, longer than the string, or absent.
String_find(s, needle) ==
    LET nLen == Len(needle)
        hits == { i \in 0..(Len(s) - nLen) : SubSeq(s, i + 1, i + nLen) = needle }
    IN IF nLen = 0 \/ Len(s) < nLen \/ hits = {} THEN -1
       ELSE CHOOSE i \in hits : \A j \in hits : i <= j

\* String::split(sep) for a separator of one character: the pieces between
\* the separators, cut with begin(curr, idx), and the remainder.
RECURSIVE splitFrom(_, _, _)
splitFrom(s, c, curr) ==
    LET idx == findChar(s, c, curr)
    IN IF idx = -1 THEN << substring(s, curr, Len(s)) >>
       ELSE << substring(s, curr, idx) >> \o splitFrom(s, c, idx + 1)

split(s, c) == splitFrom(s, c, 0)

\* The labels of a sequence in reverse order.
reversed(segs) == [i \in 1..Len(segs) |-> segs[Len(segs) + 1 - i]]

\* Hostname(const String &): the internal comma form is split as it is; a
\* traditional name is an IPv4 address (1, its four parts, the port) or a
\* DNS name (its labels from the last to the first, the port); the port is
\* 80 when none is given.
\* (String::substring has no definition under src/; host and portStr are
\* taken as the characters in front of and behind the first colon.)
Hostname(hn) ==
    IF hn = << >> THEN << >>
    ELSE IF findChar(hn, 44, 0) # -1 THEN split(hn, 44)
    ELSE LET colonIdx == findChar(hn, 58, 0)
             host     == IF colonIdx # -1 THEN SubSeq(hn, 1, colonIdx) ELSE hn
             portStr  == IF colonIdx # -1 THEN SubSeq(hn, colonIdx + 2, Len(hn))
                         ELSE << >>
             port     == IF Len(portStr) > 0 THEN portStr ELSE << 56, 48 >>
             ipParts  == split(host, 46)
             isIP     == Len(ipParts) = 4 /\ \A i \in 1..4 : strIsNumeric(ipParts[i])
         IN IF isIP THEN << << 49 >> >> \o ipParts \o << port >>
            ELSE reversed(ipParts) \o << port >>

\* parseLong of a label made of digits.
RECURSIVE parseLong(_)
parseLong(s) ==
    IF s = << >> THEN 0
    ELSE parseLong(SubSeq(s, 1, Len(s) - 1)) * 10 + (s[Len(s)] - 48)

\* NumericalHostname(const Hostname &)
NumericalHostname(hn) == [i \in 1..Len(hn) |-> parseLong(hn[i])]

MaxHopsDefault == 50

\* Reach(): the fields of a new object, with the position of run() (pc, hop)
\* and what it returned.
NewReach ==
    [station |-> FALSE, source |-> << >>, finalDestination |-> << >>,
     rootPublicKeys |-> << >>, lastProofedPublicKeys |-> << >>,
     defaultServers |-> << >>, destination |-> << >>, maxHops |-> MaxHopsDefault,
     pc |-> "idle", hop |-> 0, returned |-> "none", probes |-> 0]

\* The entry of run(): without a station it returns false at once.
Reach_enter(r) ==
    IF ~r.station THEN [r EXCEPT !.pc = "done", !.returned = "false"]
    ELSE [r EXCEPT !.pc = "loop", !.hop = 0, !.returned = "none", !.probes = 0]

\* Steps 9 and 10 of the loop body: when the proofed data names a root key,
\* the public key the peer returned (if any) joins the root keys.
Reach_checkProof(rootPublicKeys, proofedData, nextKey) ==
    IF \E i \in 1..Len(rootPublicKeys) : String_find(proofedData, rootPublicKeys[i]) # -1
    THEN IF nextKey.present THEN Append(rootPublicKeys, nextKey.value) ELSE rootPublicKeys
    ELSE rootPublicKeys

\* One pass through the head and body of the loop of run(); otherMeta is
\* what the peer of this hop returned, millis the clock at step 3.
Reach_hop(r, otherMeta, millis) ==
    IF ~(r.hop < r.maxHops)
    THEN [r EXCEPT !.pc = "done", !.returned = "false"]
    ELSE IF ~includesNames(r.destination)
    THEN [r EXCEPT !.finalDestination = NumericalHostname(r.destination),
                   !.pc = "done", !.returned = "true"]
    ELSE LET before == beforeNamed(r.destination)
             proofedData == IF otherMeta.proofed.present THEN otherMeta.proofed.value
                            ELSE << >>
         IN [r EXCEPT
                !.finalDestination =
                    IF Len(before) = 0 /\ Len(r.defaultServers) > 0
                    THEN r.defaultServers[(millis % Len(r.defaultServers)) + 1]
                    ELSE NumericalHostname(before),
                !.rootPublicKeys =
                    Reach_checkProof(@, proofedData, otherMeta.publicKey),
                !.destination =
                    IF otherMeta.hostname.present /\ otherMeta.hostname.value # << >>
                    THEN Hostname(otherMeta.hostname.value) ELSE @,
                !.lastProofedPublicKeys =
                    IF proofedData # << >> THEN << proofedData >> ELSE << >>,
                !.hop = @ + 1,
                !.probes = @ + 1]

(***************************************************************************)
(* A Reach object whose fields the application has set, and its run().      *)
(* Every pass of the loop waits for the peer of that hop; what the peer     *)
(* returned (tunnel.otherMeta) is an input of the pass.                     *)
(***************************************************************************)
MaxReachHops == 3
MaxReachRuns == 2

\* "P" and "Q", two public keys.
KeyP == << 80 >>
KeyQ == << 81 >>

\* The destinations the application asks for: none, 1,2 - 1,a - a,1 - a.
Destinations ==
    { << >>, << << 49 >>, << 50 >> >>, << << 49 >>, << 97 >> >>,
      << << 97 >>, << 49 >> >>, << << 97 >> >> }

\* An optional entry of a metadata table.
Absent == [present |-> FALSE, value |-> << >>]
Some(v) == [present |-> TRUE, value |-> v]

\* What a peer may return: proofed data naming P, naming Q, or none; a
\* public key or none; as hostname nothing, the empty string, "1,2", "1,a"
\* or "a".
OtherMetas ==
    [proofed   : { Absent, Some(KeyP), Some(KeyQ) },
     publicKey : { Absent, Some(KeyQ) },
     hostname  : { Absent, Some(<< >>), Some(<< 49, 44, 50 >>),
                   Some(<< 49, 44, 97 >>), Some(<< 97 >>) }]

reachIdle == << tun, wire, now, sent, accepted, delivered, inOrder, nextIdx,
                lastFlush, node, air, log, rail >>

InitReach ==
    /\ \E st \in BOOLEAN, d \in Destinations, mh \in 0..MaxReachHops,
          ds \in { << >>, << << 9 >> >> } :
          reach = [NewReach EXCEPT !.station = st, !.destination = d,
                                   !.maxHops = mh, !.defaultServers = ds,
                                   !.rootPublicKeys = << KeyP >>]
    /\ calls = [run |-> 0]
    /\ lastOp = NoOp
    /\ rail = << >>
    /\ air = << >>
    /\ log = << >>
    /\ tun = << >>
    /\ now = 0
    /\ wire = << >>
    /\ sent = << >>
    /\ accepted = {}
    /\ delivered = {}
    /\ inOrder = TRUE
    /\ nextIdx = 1
    /\ lastFlush = << >>
    /\ node = << >>

\* The application calls run().
ReachRun ==
    /\ reach.pc = "idle"
    /\ calls.run < MaxReachRuns
    /\ reach' = Reach_enter(reach)
    /\ calls' = [calls EXCEPT !.run = @ + 1]
    /\ lastOp' = [NoOp EXCEPT !.op = "run"]
    /\ UNCHANGED reachIdle

\* One pass of the loop of run().
ReachHop(otherMeta) ==
    /\ reach.pc = "loop"
    /\ reach' = Reach_hop(reach, otherMeta, now)
    /\ lastOp' = [NoOp EXCEPT !.op = "hop"]
    /\ UNCHANGED calls
    /\ UNCHANGED reachIdle

\* After run() returned the application sets another destination.
ReachSet(d) ==
    /\ reach.pc = "done"
    /\ calls.run < MaxReachRuns
    /\ reach' = [reach EXCEPT !.destination = d, !.pc = "idle"]
    /\ lastOp' = [NoOp EXCEPT !.op = "set"]
    /\ UNCHANGED calls
    /\ UNCHANGED reachIdle

NextReach ==
    \/ ReachRun
    \/ \E otherMeta \in OtherMetas : ReachHop(otherMeta)
    \/ \E d \in Destinations : ReachSet(d)

SpecReach == InitReach /\ [][NextReach]_vars

(***************************************************************************)
(* C28                                                                      *)
(***************************************************************************)
\* Every label of the destination is a number.
AllNumeric(hn) == \A i \in 1..Len(hn) : strIsNumeric(hn[i])

\* C28: a run() goes through the loop body at most maxHops times; when it
\* has returned and the destination still holds a name, it returned false,
\* after maxHops passes; it returns true only when no label of the
\* destination is a name, with that destination as the final one.
C28_ReachBounded ==
    /\ reach.probes <= reach.maxHops
    /\ reach.hop <= reach.maxHops
    /\ (reach.pc = "done" /\ reach.station /\ ~AllNumeric(reach.destination)) =>
          (reach.returned = "false" /\ reach.probes = reach.maxHops)
    /\ (reach.pc = "done" /\ reach.returned = "true") =>
          /\ AllNumeric(reach.destination)
          /\ reach.finalDestination = NumericalHostname(reach.destination)

\* run() has gone through maxHops passes, at least two, and returned false
\* with a name left in the destination.
C28_Witness ==
    /\ reach.pc = "done" /\ reach.returned = "false"
    /\ reach.maxHops >= 2 /\ reach.probes = reach.maxHops
    /\ ~AllNumeric(reach.destination)

\* run() returned true after a peer replaced the destination.
ReachResolvedSeen ==
    /\ reach.pc = "done" /\ reach.returned = "true"
    /\ reach.probes >= 1 /\ Len(reach.finalDestination) > 0

\* run() returned false although the destination holds no name any more:
\* the last pass resolved it.
ResolvedAtLastHop ==
    /\ reach.pc = "done" /\ reach.returned = "false" /\ reach.station
    /\ AllNumeric(reach.destination)

(***************************************************************************)
(* C29                                                                      *)
(***************************************************************************)
\* The last operation was a flush of A's session in non-windowed mode that
\* ran to its end.
NonWindowedFlush ==
    /\ lastOp.op = "flush"
    /\ ~lastOp.pre.isWindowed
    /\ ~lastOp.pre.isAsleep
    /\ lastOp.exit # "hung"

\* C29: in non-windowed mode both inflight lists of the sender are empty
\* after each flush, whether the packets were pushed as important or not.
C29_NonWindowedInflightEmpty ==
    NonWindowedFlush =>
        /\ tun["A"].inflightBundles = << >>
        /\ tun["A"].nonImportantInflightBundles = << >>

\* What flush does in non-windowed mode: the important list is empty after
\* every flush that returned a bundle.
ImportantInflightCleared ==
    (NonWindowedFlush /\ lastOp.arg # << >>) => tun["A"].inflightBundles = << >>

\* A non-important bundle stays behind a non-windowed flush that returned
\* another one.
NonImportantLeftBehind ==
    /\ NonWindowedFlush
    /\ lastOp.arg # << >>
    /\ tun["A"].nonImportantInflightBundles # << >>


\* The same for the Puffer of a Node: after a flush in non-windowed mode
\* both inflight lists are empty.
PufferNonWindowedInflightEmpty ==
    \A t \in Tunnels :
        (lastOp.op = "flush" /\ lastOp.t = t /\ ~node[t].tunnel.isWindowed) =>
            /\ node[t].tunnel.inflightBundles = << >>
            /\ node[t].tunnel.nonImportantInflightBundles = << >>

\* A non-windowed Puffer keeps an important bundle inflight that flush has
\* returned already.
PufferInflightKept ==
    \E t \in Tunnels :
        /\ lastOp.op = "flush" /\ lastOp.t = t /\ ~node[t].tunnel.isWindowed
        /\ node[t].tunnel.resendPosition > 0
        /\ Len(node[t].tunnel.inflightBundles) >= node[t].tunnel.resendPosition

(***************************************************************************)
(* C30                                                                      *)
(***************************************************************************)
\* The bundle id at the head of a windowed bundle.
BundleIdOf(data) == peekVarLong(data, 0).value

\* The positions in air where t emitted the bundle id.
EmissionsOf(t, id) ==
    { i \in 1..Len(air) : air[i].src = t /\ BundleIdOf(air[i].data) = id }

\* The ids of the bundles in a list.
IdsIn(list) == { list[k].id : k \in 1..Len(list) }

\* C30: a bundle that build() filed as non-important is returned by flush()
\* at most once, the non-important bundles leave in the order they were
\* built, one is waiting in its list exactly as long as it has not been
\* returned, and none is ever in the priority-resend queue or in the list
\* the resend cursor walks.
C30_NonImportantOnce ==
    \A t \in Tunnels :
        tun[t].isWindowed =>
            \A k \in 1..Len(tun[t].loose) :
                LET id == tun[t].loose[k]
                IN /\ Cardinality(EmissionsOf(t, id)) <= 1
                   /\ id \notin IdsIn(tun[t].priorityResendQueue)
                   /\ id \notin IdsIn(tun[t].inflightBundles)
                   /\ (id \in IdsIn(tun[t].nonImportantInflightBundles))
                          <=> (EmissionsOf(t, id) = {})
                   /\ \A j \in 1..(k - 1) :
                          EmissionsOf(t, id) # {} =>
                              \E i \in EmissionsOf(t, tun[t].loose[j]) :
                                  \A i2 \in EmissionsOf(t, id) : i < i2

\* A returned a non-important bundle, then parsed a heartbeat that reports
\* the id of that bundle as unavailable, and has returned a bundle since.
C30_Witness ==
    \E n \in 1..Len(log) : \E k \in 1..Len(tun["A"].loose) :
        /\ log[n].to = "A"
        /\ air[log[n].idx].src = "B"
        /\ \E i \in EmissionsOf("A", tun["A"].loose[k]) : i < log[n].idx
        /\ \E u \in 1..Len(air[log[n].idx].from.droppedBundles) :
              air[log[n].idx].from.droppedBundles[u] = tun["A"].loose[k]
        /\ \E j \in (log[n].idx + 1)..Len(air) : air[j].src = "A"

(***************************************************************************)
(* A windowed sender whose application pushes important and non-important   *)
(* packets, with heartbeats of its own when the clock has moved, and a     *)
(* peer that reports bundle ids as unavailable.                             *)
(***************************************************************************)
\* Tunnel::push at A of the next message, marked non-important.
LoosePush ==
    /\ Alive("A")
    /\ calls.push < MaxRepairPush
    /\ tun' = [tun EXCEPT !["A"].outbox =
                  Append(@, [RepairPacket(calls.push + 1) EXCEPT !.important = FALSE])]
    /\ calls' = [calls EXCEPT !.push = @ + 1]
    /\ lastOp' = [NoOp EXCEPT !.op = "push", !.pre = tun["A"]]
    /\ UNCHANGED << now, air, log >>
    /\ UNCHANGED idleVars

NextLoose ==
    \/ RPush
    \/ LoosePush
    \/ RFlush("A")
    \/ RTick
    \/ \E un \in NackSet : RNack(un)

SpecLoose == InitRepair /\ [][NextLoose]_vars

\* Two non-important bundles have been returned.
TwoLooseSeen ==
    \E j \in 1..Len(tun["A"].loose), k \in 1..Len(tun["A"].loose) :
        /\ j < k
        /\ EmissionsOf("A", tun["A"].loose[j]) # {}
        /\ EmissionsOf("A", tun["A"].loose[k]) # {}

\* A has just parsed a heartbeat that reports as unavailable the id of a
\* non-important bundle it had returned, and the id of an important bundle,
\* which is now in the priority-resend queue.
LooseNackedSeen ==
    /\ lastOp.op = "nack"
    /\ Len(tun["A"].priorityResendQueue) > 0
    /\ \E k \in 1..Len(tun["A"].loose) :
          /\ EmissionsOf("A", tun["A"].loose[k]) # {}
          /\ \E u \in 1..Len(lastOp.arg) : lastOp.arg[u] = tun["A"].loose[k]

(***************************************************************************)
(* Retransmission by the resend cursor.                                    *)
(***************************************************************************)
\* The last step was a flush of a windowed session with nothing else to
\* send: no heartbeat due, the outbox, the non-important list and the
\* priority-resend queue empty, and important bundles inflight.
QuietFlush ==
    /\ lastOp.op = "flush"
    /\ lastOp.pre.isWindowed
    /\ ~lastOp.pre.isAsleep
    /\ Len(lastOp.pre.outbox) = 0
    /\ Len(withHeartbeat(lastOp.pre, now).outbox) = 0
    /\ Len(lastOp.pre.nonImportantInflightBundles) = 0
    /\ Len(lastOp.pre.priorityResendQueue) = 0
    /\ Len(lastOp.pre.inflightBundles) > 0

\* C31: in windowed mode every flush with no heartbeat, non-important bundle
\* or priority-resend entry pending returns one of the important bundles
\* still inflight, for as long as that list is non-empty.
C31_StrideRetransmission ==
    QuietFlush =>
        \E k \in 1..Len(lastOp.pre.inflightBundles) :
            lastOp.arg = lastOp.pre.inflightBundles[k].data

\* What flush does: such a flush returns the bundle at the cursor when the
\* cursor is short of the end of the list, and nothing when it is at the end.
CursorServesBelowEnd ==
    QuietFlush =>
        IF lastOp.pre.resendPosition < Len(lastOp.pre.inflightBundles)
        THEN lastOp.arg =
                 lastOp.pre.inflightBundles[lastOp.pre.resendPosition + 1].data
        ELSE lastOp.arg = << >> /\ tun[lastOp.t].resendPosition = lastOp.pre.resendPosition

\* A flush returned nothing although an unacknowledged important bundle is
\* inflight.
StrideExhausted ==
    /\ QuietFlush
    /\ lastOp.arg = << >>
    /\ Len(tun[lastOp.t].inflightBundles) > 0

(***************************************************************************)
(* The resend cursor under the calls that move it or the list it walks:    *)
(* push and flush at a windowed Tunnel, removeInflight, resendFrom and the *)
(* mode changes enableWindowing and enableSecurity.                        *)
(***************************************************************************)
\* Bounds of the cursor runs: pushes, flushes, and the calls of
\* removeInflight, resendFrom and the mode changes together.
MaxCursorPush == 2
MaxCursorFlush == 3
MaxCursorCalls == 2

\* The k-th message: eight payload bytes, so that with flush(4, 46) no two
\* of them share a bundle.
CursorPacket(k) == [Packet(PayloadB, 1) EXCEPT !.id = k]

\* Two windowed Tunnels.
InitCursor ==
    /\ tun = [t \in Tunnels |-> enableWindowing(NewTunnel(0))]
    /\ now = 0
    /\ air = << >>
    /\ log = << >>
    /\ calls = [push |-> 0, flush |-> 0, other |-> 0]
    /\ lastOp = NoOp
    /\ rail = << >>
    /\ reach = << >>
    /\ wire = << >>
    /\ sent = << >>
    /\ accepted = {}
    /\ delivered = {}
    /\ inOrder = TRUE
    /\ nextIdx = 1
    /\ lastFlush = [outbox |-> << >>, ret |-> << >>, pre |-> NewTunnel(0)]
    /\ node = << >>

\* Tunnel::push at A of the next message.
CPush ==
    /\ Alive("A")
    /\ calls.push < MaxCursorPush
    /\ tun' = [tun EXCEPT !["A"].outbox = Append(@, CursorPacket(calls.push + 1))]
    /\ calls' = [calls EXCEPT !.push = @ + 1]
    /\ lastOp' = [NoOp EXCEPT !.op = "push", !.pre = tun["A"]]
    /\ UNCHANGED << now, air, log >>
    /\ UNCHANGED idleVars

\* Tunnel::flush at A.
CFlush ==
    /\ calls.flush < MaxCursorFlush
    /\ RFlush("A")

\* Tunnel::removeInflight(id) at A.
CRemove(id) ==
    /\ Alive("A")
    /\ calls.other < MaxCursorCalls
    /\ tun' = [tun EXCEPT !["A"] = removeInflight(@, id)]
    /\ calls' = [calls EXCEPT !.other = @ + 1]
    /\ lastOp' = [NoOp EXCEPT !.op = "remove", !.bID = id, !.pre = tun["A"]]
    /\ UNCHANGED << now, air, log >>
    /\ UNCHANGED idleVars

\* Tunnel::resendFrom(x) at A.
CResendFrom(x) ==
    /\ Alive("A")
    /\ calls.other < MaxCursorCalls
    /\ tun' = [tun EXCEPT !["A"] = resendFrom(@, x)]
    /\ calls' = [calls EXCEPT !.other = @ + 1]
    /\ lastOp' = [NoOp EXCEPT !.op = "resendFrom", !.bID = x, !.pre = tun["A"]]
    /\ UNCHANGED << now, air, log >>
    /\ UNCHANGED idleVars

\* Tunnel::enableWindowing() or Tunnel::enableSecurity(key) at A.
CMode(sec) ==
    /\ Alive("A")
    /\ calls.other < MaxCursorCalls
    /\ tun' = [tun EXCEPT !["A"] = IF sec THEN enableSecurity(@, SessionKey)
                                    ELSE enableWindowing(@)]
    /\ calls' = [calls EXCEPT !.other = @ + 1]
    /\ lastOp' = [NoOp EXCEPT !.op = IF sec THEN "enableSecurity"
                                     ELSE "enableWindowing",
                              !.pre = tun["A"]]
    /\ UNCHANGED << now, air, log >>
    /\ UNCHANGED idleVars

NextCursor ==
    \/ CPush
    \/ CFlush
    \/ \E id \in 1..(MaxCursorPush + 1) : CRemove(id)
    \/ \E x \in 0..(MaxCursorPush + 1) : CResendFrom(x)
    \/ \E sec \in BOOLEAN : CMode(sec)

SpecCursor == InitCursor /\ [][NextCursor]_vars

\* The bundles the cursor has yet to serve, the one it designates first.
Remaining(s) ==
    SubSeq(s.inflightBundles, s.resendPosition + 1, Len(s.inflightBundles))

\* seq without its i-th element.
Without(seq, i) == SubSeq(seq, 1, i - 1) \o SubSeq(seq, i + 1, Len(seq))

\* The last step was removeInflight(id) and the list held that id at
\* position i (from 1) and at no earlier position.
RemovedAt(i) ==
    /\ lastOp.op = "remove"
    /\ i \in 1..Len(lastOp.pre.inflightBundles)
    /\ lastOp.pre.inflightBundles[i].id = lastOp.bID
    /\ \A j \in 1..(i - 1) : lastOp.pre.inflightBundles[j].id # lastOp.bID

DesignatedRemoved ==
    \E i \in 1..Len(lastOp.pre.inflightBundles) :
        /\ RemovedAt(i)
        /\ i = lastOp.pre.resendPosition + 1
        /\ Len(Remaining(lastOp.pre)) > 1
        /\ Head(Remaining(tun["A"])) = Remaining(lastOp.pre)[2]

\* A bundle behind the designated one was removed.
LaterRemoved ==
    \E i \in 1..Len(lastOp.pre.inflightBundles) :
        RemovedAt(i) /\ i > lastOp.pre.resendPosition + 1

\* The same over a heartbeat a Tunnel parsed: the bundles yet to be served
\* are those that were, less the acknowledged ones.
AckKeepsCursor ==
    lastOp.op \in {"parse", "nack"} =>
        Remaining(tun[lastOp.t]) =
            SelectSeq(Remaining(lastOp.pre),
                      LAMBDA ib : \E k \in 1..Len(tun[lastOp.t].inflightBundles) :
                                      tun[lastOp.t].inflightBundles[k].id = ib.id)

(***************************************************************************)
(* Receipt of a heartbeat.                                                 *)
(***************************************************************************)
\* The last step was A parsing, to the end, a heartbeat whose unavailable
\* list is lastOp.arg.
NackParsed == lastOp.op = "nack" /\ lastOp.exit = "done"

\* C33: on receipt of a heartbeat the ids of the acked ranges leave the
\* important-inflight list, every id of the unavailable ranges is marked
\* received at the receiver (pretendReceived) and the resend cursor is
\* reset.
C33_HeartbeatReceipt ==
    NackParsed =>
        /\ InflightIds(tun["A"]) =
              { id \in InflightIds(lastOp.pre) :
                    ~ListedReceived(air[Len(air)].from, id) }
        /\ \A u \in 1..Len(lastOp.arg) : hasReceived(tun["A"], lastOp.arg[u])
        /\ tun["A"].resendPosition = 0

\* What a Tunnel does with the unavailable list: its receive window is the
\* one the heartbeat's own bundle id gives and the cursor stays.
NackLeavesWindowAndCursor ==
    NackParsed =>
        LET marked == pretendReceived(lastOp.pre,
                                      peekVarLong(air[Len(air)].data, 0).value)
        IN /\ tun["A"].lastReceivedNonce = marked.lastReceivedNonce
           /\ tun["A"].receiveWindowMask = marked.receiveWindowMask
           /\ tun["A"].resendPosition = lastOp.pre.resendPosition
           /\ tun["A"].inflightBundles = lastOp.pre.inflightBundles

\* A heartbeat naming an id as unavailable was parsed and the Tunnel does
\* not hold that id as received; the cursor is not at the head of the list.
UnavailableNotMarked ==
    /\ NackParsed
    /\ \E u \in 1..Len(lastOp.arg) : ~hasReceived(tun["A"], lastOp.arg[u])
    /\ tun["A"].resendPosition > 0

(***************************************************************************)
(* Progress of build(): packets of every size class against the 24 bytes   *)
(* a windowed bundle of flush(4, 46) can carry.                            *)
(***************************************************************************)
\* A payload of 14 bytes: its packet serializes to 16 bytes, which fit the
\* 24 available bytes, while 1 + 16 + 9 exceed them.
PayloadD == [i \in 1..14 |-> 80 + i]

BuildPushSet ==
    { [Packet(PayloadA, 1) EXCEPT !.id = 1],
      [Packet(PayloadB, 1) EXCEPT !.id = 2],
      [Packet(PayloadD, 1) EXCEPT !.id = 3],
      [Packet(PayloadC, 1) EXCEPT !.id = 4] }

NextBuild ==
    \/ \E p \in BuildPushSet : Push(p)
    \/ \E size \in Sizes : Flush(size)

SpecBuild == Init /\ [][NextBuild]_vars

\* The last step was a flush that found the session awake with packets in
\* the outbox, so that it called build().
FlushBuilt ==
    /\ lastOp.op = "flush"
    /\ ~lastOp.pre.isAsleep
    /\ Len(lastOp.pre.outbox) > 0

\* C34: every build() with a non-empty outbox returns and has taken at
\* least one packet out of the outbox.
C34_BuildProgress ==
    FlushBuilt =>
        /\ lastOp.exit # "hung"
        /\ Len(tun["A"].outbox) < Len(lastOp.pre.outbox)

\* build() never returned: the head packet fits the available payload but
\* not the packing margin, and another packet waits behind it.
BuildHung ==
    /\ FlushBuilt
    /\ lastOp.exit = "hung"
    /\ lastOp.pre.isWindowed
    /\ Len(lastOp.pre.outbox) > 1
    /\ Len(serializePacket(lastOp.pre, lastOp.pre.outbox[1]))
          <= availOf(lastOp.pre, 4, 46)
    /\ 1 + Len(serializePacket(lastOp.pre, lastOp.pre.outbox[1])) + 9
          > availOf(lastOp.pre, 4, 46)

\* Where build() returns it has emptied the outbox; it always returns when
\* the session is not windowed or holds a single packet whose payload is
\* not within one fragment of the limit.
BuildReturnsEmptied ==
    FlushBuilt =>
        /\ lastOp.exit # "hung" => Len(tun["A"].outbox) = 0
        /\ ~lastOp.pre.isWindowed => lastOp.exit # "hung"

(***************************************************************************)
(* Nonces of a secure session that is not windowed.                        *)
(***************************************************************************)
\* The last step was B, secure and not windowed, parsing the k-th bundle A
\* emitted as the k-th bundle it parses: the link so far lost, repeated and
\* reordered nothing.
LosslessSecureParse(k) ==
    /\ lastOp.op = "parse"
    /\ lastOp.pre.isSecure
    /\ ~lastOp.pre.isWindowed
    /\ inOrder
    /\ calls.parse = k
    /\ nextIdx = k + 1
    /\ k <= Len(tun["A"].built)

\* C35: in secure non-windowed mode the nonce under which the sender sealed
\* its k-th bundle is the nonce the receiver synthesizes for the k-th bundle
\* it parses (lastReceivedNonce + 1), and on a lossless in-order link every
\* sealed bundle authenticates.
C35_NonceSync ==
    \A k \in 1..MaxParse :
        LosslessSecureParse(k) =>
            /\ tun["A"].built[k] = lastOp.bID
            /\ lastOp.exit # "aead"

\* What the code does: the sender seals every bundle of such a session under
\* nonce 0, the receiver opens under a nonce of at least 1, and no bundle
\* authenticates.
SealedUnderZero ==
    \A k \in 1..MaxParse :
        LosslessSecureParse(k) =>
            /\ tun["A"].built[k] = 0
            /\ lastOp.bID = lastOp.pre.lastReceivedNonce + 1
            /\ lastOp.exit = "aead"
            /\ tun["B"].lastReceivedNonce = 0

\* The first sealed bundle over a lossless link failed to authenticate.
FirstSealedRejected ==
    /\ LosslessSecureParse(1)
    /\ lastOp.exit = "aead"
    /\ lastOp.arg = wire[1]

(***************************************************************************)
(* The timeout disconnect of a Tunnel.                                     *)
(***************************************************************************)
\* The last step was update() on a Tunnel whose disconnect listener had
\* already been told of the timeout.
UpdateAfterTimeout ==
    /\ lastOp.op = "update"
    /\ Len(DisconnectsOf(lastOp.pre.heard)) > 0

\* C36: the timeout disconnect fires at most once per session: the
\* disconnect listener is invoked at most once, and an update() after the
\* one that issued the timeout disconnect changes nothing, so it queues no
\* further disconnect packet.
C36_TimeoutOnce ==
    /\ \A t \in Tunnels : Len(DisconnectsOf(tun[t].heard)) <= 1
    /\ UpdateAfterTimeout => tun[lastOp.t] = lastOp.pre

\* update() was called again on the session, still idle beyond
\* disconnectTimeout, after the timeout disconnect had been issued.
C36_Witness ==
    /\ UpdateAfterTimeout
    /\ lastOp.pre.destroyAfterFlush
    /\ now > lastOp.pre.lastSeen + lastOp.pre.disconnectTimeout
    /\ Len(DisconnectsOf(tun[lastOp.t].heard)) = 1

\* The same with the disconnect packet already flushed out in between.
UpdateAfterTimeoutFlushed ==
    /\ C36_Witness
    /\ Len(lastOp.pre.outbox) = 0
    /\ Len(air) > 0

(***************************************************************************)
(* A live Node: either endpoint announces, requests and accepts at any     *)
(* time, live or not, and the link repeats bundles.                        *)
(***************************************************************************)
\* Bounds of the live runs: requestSwitch calls, acceptSwitch calls and
\* repeated bundles together, flush calls, announce calls.
MaxLiveCalls == 3
MaxLiveFlush == 3
MaxLiveAnnounce == 1

InitLive ==
    /\ node = [t \in Tunnels |-> NewNode(0)]
    /\ air = << >>
    /\ log = << >>
    /\ now = 0
    /\ calls = [announce |-> 0, push |-> 0, flush |-> 0, inject |-> 0,
                next |-> [t \in Tunnels |-> 1], lost |-> FALSE,
                live |-> 0]
    /\ lastOp = NoOp
    /\ rail = << >>
    /\ reach = << >>
    /\ tun = [t \in Tunnels |-> NewTunnel(0)]
    /\ wire = << >>
    /\ sent = << >>
    /\ accepted = {}
    /\ delivered = {}
    /\ inOrder = TRUE
    /\ nextIdx = 1
    /\ lastFlush = [outbox |-> << >>, ret |-> << >>, pre |-> NewTunnel(0)]

\* Node::requestSwitch at t, with the ephemeral key t heard announced.
LiveRequestSwitch(t) ==
    /\ NodeAlive(t)
    /\ calls.live < MaxLiveCalls
    /\ Len(node[t].theirEphemeralPub) = 32
    /\ node' = [node EXCEPT ![t] =
                   Node_requestSwitch(@, node[t].theirEphemeralPub,
                                      FreshSecret(t), FreshCode(t))]
    /\ calls' = [calls EXCEPT !.live = @ + 1]
    /\ lastOp' = [NoOp EXCEPT !.op = "requestSwitch", !.t = t, !.pre = node[t]]
    /\ UNCHANGED << air, log, now >>
    /\ UNCHANGED tunnelVars

\* Node::acceptSwitch at t, with the code of a request its listener heard.
LiveAcceptSwitch(t) ==
    /\ NodeAlive(t)
    /\ calls.live < MaxLiveCalls
    /\ Len(RequestsHeard(node[t])) > 0
    /\ node' = [node EXCEPT ![t] =
                   Node_acceptSwitch(@, RequestsHeard(node[t])[1].arg)]
    /\ calls' = [calls EXCEPT !.live = @ + 1]
    /\ lastOp' = [NoOp EXCEPT !.op = "acceptSwitch", !.t = t, !.pre = node[t]]
    /\ UNCHANGED << air, log, now >>
    /\ UNCHANGED tunnelVars

\* Node::flush at t.
LiveFlush(t) ==
    /\ calls.flush < MaxLiveFlush
    /\ NFlush(t)

\* The link hands air[i] to the peer of its sender once more.
LiveReplay(i) ==
    /\ i \in 1..Len(air)
    /\ i < calls.next[Peer(air[i].src)]
    /\ calls.live < MaxLiveCalls
    /\ NReceive(Peer(air[i].src), i, air[i].data, TRUE, TRUE)
    /\ calls' = [calls EXCEPT !.live = @ + 1, !.lost = TRUE]
    /\ UNCHANGED air

\* Node::announce at B.
LiveAnnounce ==
    /\ calls.announce < MaxLiveAnnounce
    /\ NAnnounce("B")

NextLive ==
    \/ LiveAnnounce
    \/ \E t \in Tunnels : LiveRequestSwitch(t)
    \/ \E t \in Tunnels : LiveAcceptSwitch(t)
    \/ \E t \in Tunnels : LiveFlush(t)
    \/ \E i \in 1..Len(air) : NDeliver(i, TRUE)
    \/ \E i \in 1..Len(air) : LiveReplay(i)

SpecLive == InitLive /\ [][NextLive]_vars

\* The session key of a Node: the key waiting to be installed by the next
\* flush, else the key its tunnel seals with (0: none).
SessionKeyOf(n) ==
    IF n.tunnelNeedsUpgrade THEN n.pendingNextKey ELSE KeyInUse(n.tunnel)

\* The session key material of a Node.
KeyMaterial(n) ==
    << n.pendingNextKey, n.tunnelNeedsUpgrade, n.tunnel.key, n.tunnel.isSecure,
       n.tempSharedSecret, n.myEphemeralSec >>

\* The inbox holds a control packet of the given command.
HoldsCommand(inbox, cmd) ==
    \E k \in 1..Len(inbox) :
        /\ inbox[k].channel = 0
        /\ readVarLong(inbox[k].payload, 0).value = cmd

\* The last step handed a live Node a bundle with a switch request and no
\* switch response.
RequestAtLiveNode ==
    /\ lastOp.op = "parse"
    /\ Len(log) > 0
    /\ log[Len(log)].pre.live
    /\ HoldsCommand(log[Len(log)].inbox, 20)
    /\ ~HoldsCommand(log[Len(log)].inbox, 21)

\* requestSwitch or acceptSwitch was just called at a live Node.
CallAtLiveNode ==
    /\ lastOp.op \in {"requestSwitch", "acceptSwitch"}
    /\ lastOp.pre.live

\* C37: at a live Node a requestSwitch call and an acceptSwitch call change
\* nothing, a received switch request (type 20) leaves the session key
\* material as it was, and across every step of a Node that stays live the
\* session key (pending or installed) keeps its value.
C37_LiveKeyFixed ==
    /\ [](CallAtLiveNode => node[lastOp.t] = lastOp.pre)
    /\ [](RequestAtLiveNode =>
             KeyMaterial(node[log[Len(log)].to]) = KeyMaterial(log[Len(log)].pre))
    /\ [][\A t \in Tunnels :
             (node[t].live /\ node'[t].live) =>
                 /\ SessionKeyOf(node[t]) # 0
                 /\ SessionKeyOf(node'[t]) = SessionKeyOf(node[t])]_vars

\* Witness for C37: acceptSwitch was called at a live Node that holds a
\* session key.
C37_Witness ==
    /\ CallAtLiveNode
    /\ lastOp.op = "acceptSwitch"
    /\ SessionKeyOf(lastOp.pre) # 0

\* requestSwitch was called at a live Node.
RequestSwitchWhileLive ==
    /\ CallAtLiveNode
    /\ lastOp.op = "requestSwitch"

\* The last step was enableSecurity or enableWindowing at A.
ModeCall == lastOp.op \in {"enableSecurity", "enableWindowing"}

\* What a mode call is meant to make of the Tunnel s: the nonce counters,
\* the receive mask and the outbox as after construction, the mode it
\* switches on, and everything else as it was.
ModeReset(s, op) ==
    [s EXCEPT !.lastSentNonce = 0, !.lastReceivedNonce = 0,
              !.receiveWindowMask = {}, !.outbox = << >>,
              !.key = IF op = "enableSecurity" THEN SessionKey ELSE @,
              !.isSecure = IF op = "enableSecurity" THEN TRUE ELSE @,
              !.isWindowed = IF op = "enableWindowing" THEN TRUE ELSE @]

\* The last step was a flush of a Tunnel that has built nothing since its
\* counters were reset, with an empty outbox and no heartbeat due.
FlushAfterReset ==
    /\ lastOp.op = "flush"
    /\ lastOp.pre.lastSentNonce = 0
    /\ Len(lastOp.pre.outbox) = 0
    /\ Len(withHeartbeat(lastOp.pre, now).outbox) = 0

\* C38: enableSecurity and enableWindowing reset lastSentNonce,
\* lastReceivedNonce and the receive mask, empty the outbox and change no
\* other session state, and nothing pushed before the call is emitted after
\* it: a flush right after the reset returns no bytes.
C38_ModeReset ==
    /\ ModeCall => tun["A"] = ModeReset(lastOp.pre, lastOp.op)
    /\ FlushAfterReset => lastOp.arg = << >>

\* The reset itself is as stated: counters, mask and outbox as after
\* construction, the rest of the Tunnel untouched.
ModeResetsCounters ==
    ModeCall => tun["A"] = ModeReset(lastOp.pre, lastOp.op)

\* A mode call left bundles of earlier pushes in the inflight lists.
ModeKeepsBundles ==
    /\ ModeCall
    /\ Len(lastOp.pre.outbox) > 0
    /\ Len(tun["A"].inflightBundles) > 0

\* A flush after the reset returned a bundle built before it.
StaleBundleEmitted ==
    /\ FlushAfterReset
    /\ lastOp.arg # << >>

\* C39: between operations resendPosition is at most the length of the
\* important-inflight list, at either Tunnel, whatever flush,
\* removeInflight, resendFrom and the mode changes did before.
C39_CursorInBounds ==
    \A t \in Tunnels :
        tun[t].resendPosition <= Len(tun[t].inflightBundles)

\* Witness for C39: removeInflight or resendFrom just acted on a Tunnel
\* whose cursor had passed a bundle, and the cursor now stands at the end
\* of a list that still holds bundles.
C39_Witness ==
    /\ lastOp.op \in {"remove", "resendFrom"}
    /\ lastOp.pre.resendPosition > 0
    /\ tun["A"] # lastOp.pre
    /\ Len(tun["A"].inflightBundles) > 0
    /\ tun["A"].resendPosition = Len(tun["A"].inflightBundles)

\* resendFrom was called with an id that no inflight bundle carries.
ResendFromUnknownId ==
    /\ lastOp.op = "resendFrom"
    /\ Len(lastOp.pre.inflightBundles) > 0
    /\ \A k \in 1..Len(lastOp.pre.inflightBundles) :
          lastOp.pre.inflightBundles[k].id # lastOp.bID

\* A mode change was made while the cursor had passed a bundle.
ModeCallBehindCursor ==
    /\ ModeCall
    /\ lastOp.pre.resendPosition > 0

(***************************************************************************)
(* A session that starts without the window and switches it on with       *)
(* enableWindowingAfterFlush: A pushes and flushes, B parses, either       *)
(* endpoint asks for the window and flushes.                               *)
(***************************************************************************)
\* Bounds of the late-window runs: enableWindowingAfterFlush calls, flushes at B.
MaxLateCalls == 1
MaxLateFlush == 1

\* Tunnel::enableWindowingAfterFlush
enableWindowingAfterFlush(s) == [s EXCEPT !.windowAfterFlush = TRUE]

InitLate ==
    /\ \E sec \in BOOLEAN :
          tun = [t \in Tunnels |-> Configure(NewTunnel(0), sec, FALSE)]
    /\ wire = << >>
    /\ now = 0
    /\ sent = << >>
    /\ accepted = {}
    /\ delivered = {}
    /\ inOrder = TRUE
    /\ nextIdx = 1
    /\ lastFlush = [outbox |-> << >>, ret |-> << >>, pre |-> NewTunnel(0)]
    /\ lastOp = NoOp
    /\ rail = << >>
    /\ reach = << >>
    /\ calls = [push |-> 0, flush |-> 0, parse |-> 0, inject |-> 0,
                window |-> 0, flushB |-> 0]
    /\ node = << >>
    /\ air = << >>
    /\ log = << >>

\* Tunnel::enableWindowingAfterFlush at t.
LEnableWindowingAfterFlush(t) ==
    /\ Alive(t)
    /\ calls.window < MaxLateCalls
    /\ tun' = [tun EXCEPT ![t] = enableWindowingAfterFlush(@)]
    /\ calls' = [calls EXCEPT !.window = @ + 1]
    /\ lastOp' = [NoOp EXCEPT !.op = "enableWindowingAfterFlush", !.t = t,
                              !.pre = tun[t]]
    /\ UNCHANGED << wire, now, sent, accepted, delivered, inOrder, nextIdx,
                    lastFlush >>
    /\ UNCHANGED nodeVars

\* Tunnel::flush at B; the bytes it returns travel towards A, which parses
\* nothing in these runs.
LFlushB(size) ==
    /\ Alive("B")
    /\ calls.flushB < MaxLateFlush
    /\ \E f \in { flush(tun["B"], size[1], size[2], now) } :
          /\ tun' = [tun EXCEPT !["B"] = f.s]
          /\ lastOp' = [NoOp EXCEPT !.op = "flush", !.t = "B", !.arg = f.ret,
                                    !.pre = tun["B"]]
    /\ calls' = [calls EXCEPT !.flushB = @ + 1]
    /\ UNCHANGED << wire, now, sent, accepted, delivered, inOrder, nextIdx,
                    lastFlush >>
    /\ UNCHANGED nodeVars

NextLate ==
    \/ \E p \in ForgerPushSet : Push(p)
    \/ \E size \in Sizes : Flush(size)
    \/ \E i \in 1..Len(wire) : Deliver(i)
    \/ \E t \in Tunnels : LEnableWindowingAfterFlush(t)
    \/ \E size \in Sizes : LFlushB(size)

SpecLate == InitLate /\ [][NextLate]_vars

\* The ranges listed by showReceived are pairwise disjoint and from <= to.
RangesWellFormed(r) ==
    /\ \A k \in 1..Len(r) : r[k].from <= r[k].to
    /\ \A j, k \in 1..Len(r) :
          j # k => (r[j].to < r[k].from \/ r[k].to < r[j].from)

\* C40: at a windowed Tunnel the ranges of showReceived() are pairwise
\* disjoint with from <= to, and an id lies in one of them exactly when it
\* is non-zero, within 63 of lastReceivedNonce and hasReceived(id) holds.
C40_ShowReceivedExact ==
    \A t \in Tunnels :
        tun[t].isWindowed =>
            /\ RangesWellFormed(showReceived(tun[t]))
            /\ \A id \in 0..(tun[t].lastReceivedNonce + 2) :
                  ListedReceived(tun[t], id)
                      <=> /\ id # 0
                          /\ tun[t].lastReceivedNonce - id <= 63
                          /\ hasReceived(tun[t], id)

\* The ranges are well formed, and every id they list is non-zero and at
\* most lastReceivedNonce; below the newest id they agree with hasReceived.
ShowReceivedBelowNewest ==
    \A t \in Tunnels :
        /\ RangesWellFormed(showReceived(tun[t]))
        /\ \A id \in 0..(tun[t].lastReceivedNonce + 2) :
              /\ ListedReceived(tun[t], id) =>
                    (id # 0 /\ id <= tun[t].lastReceivedNonce)
              /\ (id # tun[t].lastReceivedNonce /\ tun[t].isWindowed) =>
                    (ListedReceived(tun[t], id)
                        <=> (id # 0 /\ hasReceived(tun[t], id)))

\* A windowed Tunnel lists its newest id as received although
\* hasReceived denies it: the window was switched on after bundles were
\* counted without it.
NewestListedNotReceived ==
    /\ tun["B"].isWindowed
    /\ tun["B"].lastReceivedNonce # 0
    /\ ListedReceived(tun["B"], tun["B"].lastReceivedNonce)
    /\ ~hasReceived(tun["B"], tun["B"].lastReceivedNonce)


=============================================================================
